---- MODULE Spec2Model ----
(***************************************************************************)
(* NMTV backend: the availability tracker of the store layer               *)
(* (db-service.js, kept in src/README.md) and the block assembler of the   *)
(* server (src/unnamed/part_002) with its store-to-API fallback.           *)
(*                                                                         *)
(* Time is counted in days: every timestamp the tracker compares is a      *)
(* multiple of a day in the model, so `last < now - 30 days` keeps its     *)
(* boundary (a report exactly 30 days after the previous one increments).  *)
(***************************************************************************)
EXTENDS Integers, Sequences, FiniteSets, TLC

VARIABLES
    USE_DATABASE,   \* part_002:12, read once from the environment
    now,            \* the clock (Date.now()/new Date()), in days
    videos,         \* the store's videos table: youtube_video_id -> row
    lastCall,       \* history: the last HTTP call handled and what it answered
    chain,          \* history: per video, length of the run of persisted reports
                    \*          each at most 30 days after the one before it
    playlistCache,  \* part_002:162, Map<playlistId, {videos, timestamp}>
    bumpersCache,   \* part_002:163
    isDataReady,    \* part_002:166
    pc,             \* position of the block request being served
    req,            \* arguments of the block request being served
    dbOutcome,      \* how the store-backed path of this request ended
    dbError,        \* the message of the error the catch of the store path logged
    apiCalls,       \* history: getChannelBlock invocations within this request
    dbAttempts,     \* history: entries into the store-backed path within this request
    apiResult,      \* history: what the last getChannelBlock invocation returned
    response,       \* what getChannelBlockWithFallback returned (or threw)
    lastAccess,     \* history: the last getPlaylistVideos access and what it did
    probe,          \* a function of the server applied to drawn arguments
    isNoaChannelReady, \* part_002:168
    noaLoad,        \* position of POST /api/channel/noa/load, and whether one completed
    readyReply,     \* history: the last answer of GET /api/ready
    prefetch,       \* position of preFetchAllPlaylists started by app.listen
    fetches,        \* the upstream fetches started by the pre-fetch: id -> status
    bumperTable,    \* the store's bumpers table: youtube_video_id -> duration_seconds
    adminReply,     \* the reply to the last bumper request of the admin
    calls           \* the handlers in flight: caller -> position and local variables

trackerVars == <<videos, lastCall, chain>>
blockVars == <<playlistCache, bumpersCache, isDataReady, pc, req, dbOutcome, dbError,
               apiCalls, dbAttempts, apiResult, response>>
probeVars == <<lastAccess, probe>>
startupVars == <<isNoaChannelReady, noaLoad, readyReply, prefetch, fetches>>
bumperVars == <<bumperTable, adminReply>>
asyncVars == <<calls>>
vars == <<USE_DATABASE, now, videos, lastCall, chain, playlistCache, bumpersCache,
          isDataReady, pc, req, dbOutcome, dbError, apiCalls, dbAttempts, apiResult, response,
          lastAccess, probe, isNoaChannelReady, noaLoad, readyReply, prefetch,
          fetches, bumperTable, adminReply, calls>>

(***************************************************************************)
(* Bounds of the model                                                     *)
(***************************************************************************)
MaxTime == 41          \* the clock stops here
ShortGap == 10         \* a gap between reports well inside the reset window
MaxCount == 52         \* reports are accepted while the counter is below this
MaxBlockTime == 1      \* the clock of the block assembler stops here
MaxCallers == 2        \* handlers that may be in flight at once
MaxReports == 3        \* failure reports made for a video under concurrency
MaxItems == 13         \* longest list handed to a function applied on its own
MaxCustom == 5         \* videos of the longest custom playlist handed to the blend
MaxOfficial == 20      \* official videos handed to the blend
MaxSources == 9        \* playlists of the largest store catalogue drawn
MaxShuffled == 5       \* playlists of the largest API catalogue drawn

Callers == 1..MaxCallers

(***************************************************************************)
(* Program constants                                                       *)
(***************************************************************************)
ResetWindow == 30      \* README.md:563  30 * 24 * 60 * 60 * 1000 ms, in days
FLAG_THRESHOLD == 50   \* README.md:579  if (newCount >= 50)
DOC_FLAG_THRESHOLD == 5 \* UNAVAILABILITY_TRACKING.md:19  "If counter >= 5"
NoTime == -1           \* last_unavailable_at IS NULL (schema default)
NoErrorCode == 0       \* errorCode absent (undefined/null: falsy)
HTTP_OK == 200
HTTP_ERROR == 500

ErrorCodes == {NoErrorCode, 150}
Gaps == {ShortGap, ResetWindow, ResetWindow + 1}

(***************************************************************************)
(* The videos table (README.md:152-167)                                    *)
(***************************************************************************)
NoReason == [kind |-> "null", count |-> 0, code |-> NoErrorCode]

VideoRow(limited) ==
    [unavailable_count |-> 0, last_unavailable_at |-> NoTime,
     is_flagged |-> FALSE, flag_reason |-> NoReason, is_limited |-> limited]

NoRow == VideoRow(FALSE)

\* Identifiers a client may put in the URL: one stored video, one the store
\* does not hold.
TrackedVideoIds == {"v1"}
UnknownVideoIds == {"vX"}
RequestVideoIds == TrackedVideoIds \cup UnknownVideoIds

(***************************************************************************)
(* markVideoUnavailable (README.md:547-617)                                *)
(***************************************************************************)
\* mutant: the counter is incremented whatever the age of the last report
NewCountNoReset(row, t) ==
    row.unavailable_count + 1

\* README.md:561-574
NewCount(row, t) ==
    IF row.last_unavailable_at = NoTime \/ row.last_unavailable_at < t - ResetWindow
    THEN 1
    ELSE row.unavailable_count + 1

\* README.md:578-582
ShouldFlag(newCount) ==
    newCount >= FLAG_THRESHOLD

\* README.md:585-590
AutoFlagReason(newCount, errorCode) ==
    [kind |-> "auto", count |-> newCount, code |-> errorCode]

\* mutant: one UPDATE for both branches that writes is_flagged = shouldFlag
MarkedRowWritesFlag(row, errorCode, t) ==
    LET newCount == NewCount(row, t)
    IN  [row EXCEPT !.unavailable_count = newCount,
                    !.last_unavailable_at = t,
                    !.is_flagged = ShouldFlag(newCount),
                    !.flag_reason = IF ShouldFlag(newCount)
                                    THEN AutoFlagReason(newCount, errorCode)
                                    ELSE @]

\* README.md:592-613: the row the UPDATE leaves
MarkedRow(row, errorCode, t) ==
    LET newCount == NewCount(row, t)
    IN  IF ShouldFlag(newCount)
        THEN [row EXCEPT !.unavailable_count = newCount,
                         !.last_unavailable_at = t,
                         !.is_flagged = TRUE,
                         !.flag_reason = AutoFlagReason(newCount, errorCode)]
        ELSE [row EXCEPT !.unavailable_count = newCount,
                         !.last_unavailable_at = t]

\* README.md:788-796 flagVideo(youtubeVideoId, reason = null)
FlaggedRow(row) ==
    [row EXCEPT !.is_flagged = TRUE, !.flag_reason = NoReason]

\* history: the chain of reports, stated without the counter
ChainNext(c, prevAt, t) ==
    IF prevAt # NoTime /\ t - prevAt <= ResetWindow THEN c + 1 ELSE 1

\* history record of one handled call: the handler, the :videoId of the URL, the
\* HTTP status answered, whether a store query threw, the row before the call
\* and the time of the call
Call(op, videoId, status, dbFailed, before) ==
    [op |-> op, videoId |-> videoId, status |-> status, dbFailed |-> dbFailed,
     before |-> before, at |-> now]

NoCall == [op |-> "none", videoId |-> "-", status |-> HTTP_OK, dbFailed |-> FALSE,
           before |-> NoRow, at |-> 0]

(***************************************************************************)
(* POST /api/videos/:videoId/unavailable (part_002:1357-1387)              *)
(***************************************************************************)
\* part_002:1359-1366: without the store the handler answers success at once
UnavailableNoStore(videoId) ==
    /\ ~USE_DATABASE
    /\ lastCall' = Call("unavailable", videoId, HTTP_OK, FALSE, NoRow)
    /\ UNCHANGED <<videos, chain>>

\* part_002:1383-1386: a query of markVideoUnavailable threw
UnavailableStoreError(videoId) ==
    /\ USE_DATABASE
    /\ lastCall' = Call("unavailable", videoId, HTTP_ERROR, TRUE,
                        IF videoId \in DOMAIN videos THEN videos[videoId] ELSE NoRow)
    /\ UNCHANGED <<videos, chain>>

\* README.md:556-559: the SELECT finds no row
UnavailableUnknown(videoId) ==
    /\ USE_DATABASE
    /\ videoId \notin DOMAIN videos
    /\ lastCall' = Call("unavailable", videoId, HTTP_OK, FALSE, NoRow)
    /\ UNCHANGED <<videos, chain>>

\* part_002:1375-1382 with README.md:561-616
UnavailableTracked(videoId, errorCode) ==
    /\ USE_DATABASE
    /\ videoId \in DOMAIN videos
    /\ videos[videoId].unavailable_count < MaxCount
    /\ LET row == videos[videoId]
       IN  /\ videos' = [videos EXCEPT ![videoId] = MarkedRow(row, errorCode, now)]
           /\ chain' = [chain EXCEPT
                          ![videoId] = ChainNext(@, row.last_unavailable_at, now)]
           /\ lastCall' = Call("unavailable", videoId, HTTP_OK, FALSE, row)

PostUnavailable ==
    /\ \E videoId \in RequestVideoIds, errorCode \in ErrorCodes :
          \/ UnavailableNoStore(videoId)
          \/ UnavailableStoreError(videoId)
          \/ UnavailableUnknown(videoId)
          \/ UnavailableTracked(videoId, errorCode)
    /\ UNCHANGED <<USE_DATABASE, now>>
    /\ UNCHANGED blockVars
    /\ UNCHANGED probeVars
    /\ UNCHANGED startupVars
    /\ UNCHANGED bumperVars
    /\ UNCHANGED asyncVars

(***************************************************************************)
(* POST /api/videos/:videoId/flag (part_002:1326-1354)                     *)
(***************************************************************************)
PostFlag ==
    /\ \E videoId \in RequestVideoIds :
          \/ /\ ~USE_DATABASE
             /\ lastCall' = Call("flag", videoId, HTTP_OK, FALSE, NoRow)
             /\ UNCHANGED videos
          \/ /\ USE_DATABASE
             /\ lastCall' = Call("flag", videoId, HTTP_ERROR, TRUE, NoRow)
             /\ UNCHANGED videos
          \/ /\ USE_DATABASE
             /\ lastCall' = Call("flag", videoId, HTTP_OK, FALSE, NoRow)
             /\ videos' = [v \in DOMAIN videos |->
                             IF v = videoId THEN FlaggedRow(videos[v]) ELSE videos[v]]
    /\ UNCHANGED <<USE_DATABASE, now, chain>>
    /\ UNCHANGED blockVars
    /\ UNCHANGED probeVars
    /\ UNCHANGED startupVars
    /\ UNCHANGED bumperVars
    /\ UNCHANGED asyncVars

\* The clock advances between calls.
Tick ==
    /\ \E d \in Gaps :
          /\ now + d <= MaxTime
          /\ now' = now + d
    /\ UNCHANGED <<USE_DATABASE, videos, lastCall, chain>>
    /\ UNCHANGED blockVars
    /\ UNCHANGED probeVars
    /\ UNCHANGED startupVars
    /\ UNCHANGED bumperVars
    /\ UNCHANGED asyncVars

(***************************************************************************)
(* Catalogue of the model: a reduced stand-in for CHANNELS (part_002:170-  *)
(* 230), the store's playlists and the upstream video platform             *)
(***************************************************************************)
MinPlaylistIdLen == 13   \* part_002:535  {13,}
MAX_RESULTS == 50        \* part_002:280  maxResults=50
BLOCK_SIZE == 12         \* part_002:722
SHOWS_BLOCK_SIZE == 3    \* part_002:714
PLAYLISTS_TO_SAMPLE == 8 \* part_002:945
VIDEOS_PER_PLAYLIST == 15 \* part_002:946
CUSTOM_FETCH_LIMIT == 100 \* part_002:964
DB_RANDOM_LIMIT == 50    \* part_002:1049, 1053
CACHE_DURATION == 1      \* part_002:161  24 h, in days
MAX_BUMPER_DURATION == 90 \* part_002:249
NoLimit == 0             \* maxVideos = null (falsy)
SPECIAL_EVENT_ENABLED == FALSE   \* part_002:233

\* A playlist identifier: its text, with what the pattern of isValidPlaylistId
\* reads of it (its length, and whether all characters are in [a-zA-Z0-9_-]).
Pid(name, len, charsOk) == [name |-> name, len |-> len, charsOk |-> charsOk]

PL_ROCK == Pid("PLrock", 34, TRUE)
PL_SHOWS == Pid("PLshows", 34, TRUE)
PL_SPECIAL == Pid("PLspecial", 34, TRUE)
PL_CUSTOM == Pid("PLcustom", 34, TRUE)
PL_SHORT == Pid("PLshort", 12, TRUE)
PL_LONG == Pid("PLlong", 34, TRUE)
PL_GONE == Pid("PLgone", 34, TRUE)
PL_LIVE_A == Pid("PLliveA", 34, TRUE)
PL_LIVE_B == Pid("PLliveB", 34, TRUE)
PL_NOA == Pid("PLnoa", 34, TRUE)

\* part_002:1547
CONCURRENCY_LIMIT == 8

\* part_002:1528-1541: the playlists the pre-fetch walks (all channels but
\* 'noa', each id once), here two full batches of them
StartupPlaylists ==
    [i \in 1..(2 * CONCURRENCY_LIMIT) |-> Pid("PL" \o ToString(i), 34, TRUE)]

\* part_002:170-230
CHANNELS ==
    [rock |-> <<[id |-> PL_ROCK, label |-> "Rock"]>>,
     shows |-> <<[id |-> PL_SHOWS, label |-> "Shows"]>>,
     live |-> <<[id |-> PL_LIVE_A, label |-> "Live A"],
                [id |-> PL_LIVE_B, label |-> "Live B"]>>,
     noa |-> <<[id |-> PL_NOA, label |-> "Noa"]>>,
     random |-> <<>>]

\* part_002:940 and 1028, restricted to the channels of the catalogue
ChannelsToInclude == <<"rock", "shows">>

\* part_002:232-240
SPECIAL_EVENT_PLAYLISTS == <<[id |-> PL_SPECIAL, label |-> "Special"]>>

\* What the video platform holds for each playlist, as playlistItems titles.
UpItem(id, title) == [id |-> id, title |-> title]

Upstream ==
    (PL_ROCK :> <<UpItem("v1", "A - One"), UpItem("d4", "Deleted video"),
                  UpItem("v2", "Two")>>) @@
    (PL_SHOWS :> <<UpItem("v2", "Two")>>) @@
    (PL_SPECIAL :> <<UpItem("v1", "A - One")>>) @@
    (PL_CUSTOM :> <<UpItem("v1", "A - One"), UpItem("c9", "Nine")>>) @@
    (PL_LONG :> [i \in 1..(MAX_RESULTS + 1) |-> UpItem(ToString(i), "Song")]) @@
    (PL_LIVE_A :> <<UpItem("v1", "A - One"), UpItem("v2", "Two")>>) @@
    (PL_LIVE_B :> <<UpItem("v2", "Two")>>) @@
    (PL_NOA :> <<UpItem("v1", "A - One")>>) @@
    [p \in {StartupPlaylists[i] : i \in DOMAIN StartupPlaylists} |->
        <<UpItem("v1", "A - One")>>]

\* The store: playlists (README.md:130-146) and playlist_videos (README.md:172-178)
DbPid(n) == Pid(n, 1, TRUE)

DbPlaylists ==
    [rock |-> <<[id |-> DbPid("1"), name |-> "Rock"]>>,
     shows |-> <<[id |-> DbPid("2"), name |-> "Shows"]>>,
     live |-> <<[id |-> DbPid("3"), name |-> "Live A"],
                [id |-> DbPid("4"), name |-> "Live B"]>>]

DbPlaylistVideos ==
    (DbPid("1") :> {"v1", "v2"}) @@ (DbPid("2") :> {"v2"}) @@
    (DbPid("3") :> {"v1"}) @@ (DbPid("4") :> {"v2"})

StoredVideoIds == {"v1", "v2"}

\* README.md:183-188 the bumpers table
DbBumpers == <<"b1", "b2">>
\* duration_seconds of the seeded rows
SeededDuration == ("b1" :> 30) @@ ("b2" :> 90)
\* the bumper playlists (part_002:243) as the platform holds them, with the
\* duration of each video in seconds
UpstreamBumpers ==
    <<[id |-> "b1", duration |-> 30], [id |-> "b2", duration |-> 90],
      [id |-> "b3", duration |-> 91]>>

(***************************************************************************)
(* Sequences                                                               *)
(***************************************************************************)
Range(s) == {s[i] : i \in DOMAIN s}

Min(a, b) == IF a < b THEN a ELSE b

\* Array.prototype.slice(0, n)
Take(s, n) == SubSeq(s, 1, Min(n, Len(s)))

RECURSIVE Flat(_)
\* Array.prototype.flat
Flat(ss) == IF ss = <<>> THEN <<>> ELSE Head(ss) \o Flat(Tail(ss))

Perms(s) ==
    LET n == Len(s)
        Bij == {f \in [1..n -> 1..n] : \A i, j \in 1..n : f[i] = f[j] => i = j}
    IN  {[i \in 1..n |-> s[f[i]]] : f \in Bij}

\* part_002:261-267 Fisher-Yates: any permutation may result
shuffle(arr) == Perms(arr)

\* [...set] in some order
Orders(S) ==
    {q \in [1..Cardinality(S) -> S] : \A i, j \in DOMAIN q : q[i] = q[j] => i = j}

RECURSIVE dedupe(_)
\* part_002:657-664: keeps the first entry of each id
dedupe(vs) ==
    IF vs = <<>> THEN <<>>
    ELSE LET rest == dedupe(SubSeq(vs, 1, Len(vs) - 1))
             last == vs[Len(vs)]
         IN  IF \E i \in DOMAIN rest : rest[i].id = last.id
             THEN rest
             ELSE Append(rest, last)

\* part_002:533-536
isValidPlaylistId(playlistId) ==
    playlistId.charsOk /\ playlistId.len >= MinPlaylistIdLen

(***************************************************************************)
(* Items of a block                                                        *)
(***************************************************************************)
\* part_002:299-308: an item as fetchPlaylistItems builds it (no isBumper field)
ApiItem(id) == [id |-> id, isBumper |-> "undefined"]
\* part_002:1079-1086, 1178-1185, 1197-1204 and README.md:635-658
DbItem(id) == [id |-> id, isBumper |-> "false"]
BumperItem(id) == [id |-> id, isBumper |-> "true"]
\* videos[i] beyond the end of the array
Undefined == [id |-> "undefined", isBumper |-> "undefined"]

At(s, i) == IF i \in DOMAIN s THEN s[i] ELSE Undefined

Block(label, playlistId, items) ==
    [kind |-> "block", playlistLabel |-> label, playlistId |-> playlistId,
     items |-> items]
Thrown(message) == [kind |-> "error", message |-> message]
\* the synchronous loop of part_002:732-735 never ends
Hang == [kind |-> "hang"]

(***************************************************************************)
(* Source fetcher and playlist cache (part_002:269-340, 451-490)           *)
(***************************************************************************)
\* part_002:295-298
IsPlaceholder(item) == item.title \in {"Deleted video", "Private video"}

\* the filter, were it to keep every item
KeepsEverything(item) == TRUE

NotPlaceholder(item) == ~IsPlaceholder(item)

Ids(items) == [i \in DOMAIN items |-> items[i].id]

RECURSIVE FetchFrom(_, _, _, _, _)
\* part_002:279-339: the pages from `page` on; the request of page failPage
\* throws (0: none does), and the catch breaks out with what was gathered.
\* The list returned, and whether a request failed on the way.
FetchFrom(raw, page, allVideos, maxVideos, failPage) ==
    IF page = failPage THEN [videos |-> allVideos, failed |-> TRUE]
    ELSE LET items == SubSeq(raw, (page - 1) * MAX_RESULTS + 1,
                             Min(page * MAX_RESULTS, Len(raw)))
             kept == SelectSeq(items, NotPlaceholder)
             acc == allVideos \o [i \in DOMAIN kept |-> ApiItem(kept[i].id)]
         IN  IF maxVideos # NoLimit /\ Len(acc) >= maxVideos
             THEN [videos |-> Take(acc, maxVideos), failed |-> FALSE]
             ELSE IF page * MAX_RESULTS >= Len(raw)
             THEN [videos |-> acc, failed |-> FALSE]
             ELSE FetchFrom(raw, page + 1, acc, maxVideos, failPage)

NumPages(raw) == IF Len(raw) = 0 THEN 1 ELSE (Len(raw) + MAX_RESULTS - 1) \div MAX_RESULTS

\* part_002:269-340: every way one call may end (a playlist the platform does
\* not hold answers 404, which the catch turns into an empty list)
FetchOutcomes(playlistId, maxVideos) ==
    IF playlistId \notin DOMAIN Upstream THEN {[videos |-> <<>>, failed |-> TRUE]}
    ELSE {FetchFrom(Upstream[playlistId], 1, <<>>, maxVideos, failPage) :
             failPage \in 0..NumPages(Upstream[playlistId])}

\* part_002:269-340: every list one call may return
fetchPlaylistItems(playlistId, maxVideos) ==
    {o.videos : o \in FetchOutcomes(playlistId, maxVideos)}

\* part_002:470-472, 484-488: the timeout wins the race
TimedOut == [videos |-> <<>>, failed |-> TRUE]

CachePut(cache, playlistId, vids) ==
    (playlistId :> [videos |-> vids, timestamp |-> now]) @@ cache

\* the test of part_002:456, were it to keep an entry at its expiry
CacheValidAtExpiry(cache, playlistId) ==
    /\ playlistId \in DOMAIN cache
    /\ now - cache[playlistId].timestamp <= CACHE_DURATION

\* part_002:455-458
CacheValid(cache, playlistId) ==
    /\ playlistId \in DOMAIN cache
    /\ now - cache[playlistId].timestamp < CACHE_DURATION

\* part_002:451-490: every (returned list, cache afterwards, calls of
\* fetchPlaylistItems made, whether the fetch failed); a timeout gives the
\* empty list, cached like a result
getPlaylistVideos(cache, playlistId, maxVideos) ==
    IF CacheValid(cache, playlistId)
    THEN {[videos |-> cache[playlistId].videos, cache |-> cache, fetched |-> 0,
           failed |-> FALSE]}
    ELSE {[videos |-> o.videos, cache |-> CachePut(cache, playlistId, o.videos),
           fetched |-> 1, failed |-> o.failed] :
             o \in FetchOutcomes(playlistId, maxVideos) \cup {TimedOut}}

\* part_002:669-686: the title, or null when the lookup fails
getPlaylistName(playlistId) ==
    IF playlistId \in DOMAIN Upstream THEN {playlistId.name, "null"} ELSE {"null"}

\* part_002:868, 1154
CustomLabel(playlistName, playlistId) ==
    IF playlistName = "null" THEN "Custom Playlist" ELSE playlistName

(***************************************************************************)
(* Bumper interleaver on the cache (part_002:751-785)                      *)
(***************************************************************************)
\* a bumper after every fourth video instead
BumperAfterEveryFourth == {4, 8, 12}

\* part_002:778 and 1269, as 1-based positions
BumperAfter == {2, 6, 10, 12}

RECURSIVE Interleave(_, _, _, _)
\* part_002:774-782: videos from position i on, the next bumper being number k
Interleave(vids, bumpers, i, k) ==
    IF i > Len(vids) THEN <<>>
    ELSE IF i \in BumperAfter
    THEN <<vids[i], bumpers[(k % Len(bumpers)) + 1]>>
             \o Interleave(vids, bumpers, i + 1, k + 1)
    ELSE <<vids[i]>> \o Interleave(vids, bumpers, i + 1, k)

\* part_002:751-785 for one order of the shuffled pool
InsertWith(vids, interval, shuffled) ==
    IF interval = "shows"
    THEN <<At(vids, 1), shuffled[1], At(vids, 2), At(vids, 3),
           shuffled[(1 % Len(shuffled)) + 1]>>
    ELSE Interleave(vids, shuffled, 1, 0)

\* part_002:418-441: the fetched entries of at most MAX_BUMPER_DURATION
\* seconds, in the order of the playlists, tagged as bumpers
KeptBumpers(raw) ==
    LET Short(b) == b.duration # 0 /\ b.duration <= MAX_BUMPER_DURATION
        kept == SelectSeq(raw, Short)
    IN  [i \in DOMAIN kept |-> BumperItem(kept[i].id)]

\* part_002:751-785: bumpersCache is empty until fetchBumpers has answered
insertBumpersIntoBlock(vids, interval) ==
    IF bumpersCache = <<>>
    THEN {vids}
    ELSE {InsertWith(vids, interval, sh) : sh \in shuffle(bumpersCache)}

(***************************************************************************)
(* Single-source block on the cache (part_002:689-748, 788-846)            *)
(***************************************************************************)
BlockSizeOf(channel) == IF channel = "shows" THEN SHOWS_BLOCK_SIZE ELSE BLOCK_SIZE

IntervalOf(channel) == IF channel = "shows" THEN "shows" ELSE "positional"

FillBlockOnce(blockVideos, available, blockSize) ==
    IF Len(blockVideos) >= blockSize THEN blockVideos
    ELSE blockVideos \o Take(available, blockSize - Len(blockVideos))

RECURSIVE FillBlock(_, _, _)
\* part_002:727-736 (available is not empty)
FillBlock(blockVideos, available, blockSize) ==
    IF Len(blockVideos) >= blockSize THEN blockVideos
    ELSE FillBlock(blockVideos \o Take(available, blockSize - Len(blockVideos)),
                   available, blockSize)

NotExcluded(vids, excludeVideoIds) ==
    LET Keep(v) == v.id \notin excludeVideoIds IN SelectSeq(vids, Keep)

\* part_002:689-748: every (result, cache afterwards). When the filter leaves
\* nothing, availableVideos is the cached array itself and shuffle reorders it in
\* the cache; an empty list never fills the block.
createProgrammingBlock(cache, playlistObj, channel, excludeVideoIds) ==
    UNION {
        LET filtered == NotExcluded(got.videos, excludeVideoIds)
            aliased == filtered = <<>>
            available == IF aliased THEN got.videos ELSE filtered
        IN  UNION {
                LET after == IF aliased /\ playlistObj.id \in DOMAIN got.cache
                             THEN [got.cache EXCEPT ![playlistObj.id].videos = sh]
                             ELSE got.cache
                IN  IF sh = <<>>
                    THEN {[result |-> Hang, cache |-> after]}
                    ELSE {[result |-> Block(playlistObj.label, playlistObj.id.name, items),
                           cache |-> after] :
                             items \in insertBumpersIntoBlock(
                                 FillBlock(Take(sh, BlockSizeOf(channel)), sh,
                                           BlockSizeOf(channel)),
                                 IntervalOf(channel))}
                : sh \in shuffle(available)}
        : got \in getPlaylistVideos(cache, playlistObj.id, NoLimit)}

OfficialOf(channel) ==
    IF channel \in DOMAIN CHANNELS
    THEN [i \in DOMAIN CHANNELS[channel] |->
             [id |-> CHANNELS[channel][i].id, label |-> CHANNELS[channel][i].label,
              isCustom |-> FALSE]]
    ELSE <<>>

\* the custom playlist objects, were the invalid ids kept
CustomOfUnfiltered(customPlaylistIds) ==
    [i \in DOMAIN customPlaylistIds |->
        [id |-> customPlaylistIds[i], label |-> "null", isCustom |-> TRUE]]

\* part_002:792-794, 1035-1037, 1103-1105
CustomOf(customPlaylistIds) ==
    LET valid == SelectSeq(customPlaylistIds, isValidPlaylistId)
    IN  [i \in DOMAIN valid |-> [id |-> valid[i], label |-> "null", isCustom |-> TRUE]]

IsCustom(p) == p.isCustom
IsOfficial(p) == ~p.isCustom

\* part_002:813-845 and 1122-1143: the zig-zag preference over a candidate list
PickPreferred(candidates, hasCustom, preferCustom) ==
    LET custom == Range(SelectSeq(candidates, IsCustom))
        official == Range(SelectSeq(candidates, IsOfficial))
    IN  IF ~hasCustom THEN Range(candidates)
        ELSE IF preferCustom
        THEN (IF custom # {} THEN custom ELSE official)
        ELSE (IF official # {} THEN official ELSE custom)

\* the selection, were it to leave the exclusions aside
selectIgnoringExclusions(channel, customPlaylistIds, excludePlaylistIds, preferCustom) ==
    LET customPlaylists == CustomOf(customPlaylistIds)
        allPlaylists == OfficialOf(channel) \o customPlaylists
    IN  IF allPlaylists = <<>> THEN {}
        ELSE PickPreferred(allPlaylists, customPlaylists # <<>>, preferCustom)

\* part_002:788-846: the playlists one call may return; {} when it throws
selectRandomPlaylist(channel, customPlaylistIds, excludePlaylistIds, preferCustom) ==
    LET customPlaylists == CustomOf(customPlaylistIds)
        allPlaylists == OfficialOf(channel) \o customPlaylists
        Avail(p) == p.id \notin excludePlaylistIds
        availablePlaylists == SelectSeq(allPlaylists, Avail)
    IN  IF allPlaylists = <<>> THEN {}
        ELSE IF availablePlaylists = <<>> THEN Range(allPlaylists)
        ELSE PickPreferred(availablePlaylists, customPlaylists # <<>>, preferCustom)

(***************************************************************************)
(* Random and special blocks on the cache (part_002:876-1001)              *)
(***************************************************************************)
RECURSIVE FetchAll(_, _, _)
\* part_002:952-956, 962-964: getPlaylistVideos for each id in turn; every
\* (lists, cache afterwards)
FetchAll(cache, playlistIds, maxVideos) ==
    IF playlistIds = <<>> THEN {[lists |-> <<>>, cache |-> cache]}
    ELSE UNION {
            {[lists |-> <<got.videos>> \o rest.lists, cache |-> rest.cache] :
                rest \in FetchAll(got.cache, Tail(playlistIds), maxVideos)}
            : got \in getPlaylistVideos(cache, Head(playlistIds), maxVideos)}

\* part_002:979-991 and 1064-1076: dedupe, exclude (all when none is left),
\* shuffle, slice(0, 12)
MixedBlockVideos(lists, excludeVideoIds) ==
    LET allVideos == dedupe(Flat(lists))
        filtered == NotExcluded(allVideos, excludeVideoIds)
        available == IF filtered = <<>> THEN allVideos ELSE filtered
    IN  {Take(sh, BLOCK_SIZE) : sh \in shuffle(available)}

\* part_002:940-941: the playlists of the included channels of a catalogue
allPlaylistsOf(channels) ==
    Flat([i \in DOMAIN ChannelsToInclude |->
             IF ChannelsToInclude[i] \in DOMAIN channels
             THEN channels[ChannelsToInclude[i]] ELSE <<>>])

\* part_002:948-949: shuffle, then the first PLAYLISTS_TO_SAMPLE
selectedPlaylistsOf(allPlaylists) ==
    {Take(sh, PLAYLISTS_TO_SAMPLE) : sh \in shuffle(allPlaylists)}

\* part_002:938-1001
getRandomChannelBlock(cache, customPlaylistIds, excludeVideoIds) ==
    LET allPlaylists == allPlaylistsOf(CHANNELS)
        customIds == SelectSeq(customPlaylistIds, isValidPlaylistId)
    IN  UNION {
            UNION {
                UNION {
                    UNION {
                        {[result |-> Block("", "random-mix", items),
                          cache |-> cust.cache] :
                            items \in insertBumpersIntoBlock(blockVideos, "positional")}
                        : blockVideos \in MixedBlockVideos(off.lists \o cust.lists,
                                                           excludeVideoIds)}
                    : cust \in FetchAll(off.cache, customIds, CUSTOM_FETCH_LIMIT)}
                : off \in FetchAll(cache, Ids(selectedPlaylists), VIDEOS_PER_PLAYLIST)}
            : selectedPlaylists \in selectedPlaylistsOf(allPlaylists)}

\* README.md:649-657: shuffle the rows, keep the first count
RandomBumpersOf(rows, count) ==
    {[i \in 1..Min(count, Len(sh)) |-> BumperItem(sh[i])] : sh \in shuffle(rows)}

\* README.md:635-658
getRandomBumpers(count) == RandomBumpersOf(DbBumpers, count)

RECURSIVE PickSeqs(_, _, _)
\* part_002:1240-1250: k successive picks among n bumpers, none equal to the
\* one before it (the only one when n = 1)
PickSeqs(n, k, last) ==
    IF k = 0 THEN {<<>>}
    ELSE UNION {{<<j>> \o rest : rest \in PickSeqs(n, k - 1, j)} :
                   j \in {j \in 1..n : n = 1 \/ j # last}}

RECURSIVE InterleavePicked(_, _, _, _, _)
\* part_002:1265-1272
InterleavePicked(vids, bumpers, picks, i, k) ==
    IF i > Len(vids) THEN <<>>
    ELSE IF i \in BumperAfter
    THEN <<vids[i], bumpers[picks[k]]>>
             \o InterleavePicked(vids, bumpers, picks, i + 1, k + 1)
    ELSE <<vids[i]>> \o InterleavePicked(vids, bumpers, picks, i + 1, k)

\* part_002:1231-1275
insertBumpersIntoBlockFromDB(vids, bumpers, interval) ==
    IF bumpers = <<>> THEN {vids}
    ELSE IF interval = "shows"
    THEN {<<At(vids, 1), bumpers[picks[1]], At(vids, 2), At(vids, 3),
            bumpers[picks[2]]>> : picks \in PickSeqs(Len(bumpers), 2, 0)}
    ELSE {InterleavePicked(vids, bumpers, picks, 1, 1) :
             picks \in PickSeqs(Len(bumpers),
                                Cardinality(BumperAfter \cap (1..Len(vids))), 0)}

AsDbItems(vids) == [i \in DOMAIN vids |-> DbItem(vids[i].id)]

\* part_002:876-935
getSpecialChannelBlock(cache) ==
    IF ~SPECIAL_EVENT_ENABLED \/ SPECIAL_EVENT_PLAYLISTS = <<>>
    THEN {[result |-> Thrown("Special channel is not active"), cache |-> cache]}
    ELSE UNION {
            UNION {
                IF got.videos = <<>>
                THEN {[result |-> Thrown("No videos found for special channel"),
                       cache |-> got.cache]}
                ELSE UNION {
                        LET after == [got.cache EXCEPT ![playlist.id].videos = sh]
                            blockVideos == FillBlock(Take(sh, BLOCK_SIZE), sh, BLOCK_SIZE)
                            itemSets ==
                                IF USE_DATABASE
                                THEN UNION {insertBumpersIntoBlockFromDB(
                                                AsDbItems(blockVideos), b, "positional")
                                            : b \in getRandomBumpers(4)}
                                ELSE insertBumpersIntoBlock(blockVideos, "positional")
                        IN  {[result |-> Block(playlist.label, playlist.id.name, items),
                              cache |-> after] : items \in itemSets}
                        : sh \in shuffle(got.videos)}
                : got \in getPlaylistVideos(cache, playlist.id, NoLimit)}
            : playlist \in Range(SPECIAL_EVENT_PLAYLISTS)}

\* part_002:849-873: every (result, cache afterwards) of the API-backed builder
getChannelBlock(cache, channel, customPlaylistIds, excludePlaylistIds, excludeVideoIds, preferCustom) ==
    IF channel = "random"
    THEN getRandomChannelBlock(cache, customPlaylistIds, excludeVideoIds)
    ELSE IF channel = "special"
    THEN getSpecialChannelBlock(cache)
    ELSE LET selected == selectRandomPlaylist(channel, customPlaylistIds,
                                              excludePlaylistIds, preferCustom)
         IN  IF selected = {}
             THEN {[result |-> Thrown("No playlists available for channel"),
                    cache |-> cache]}
             ELSE UNION {
                     IF ~p.isCustom
                     THEN createProgrammingBlock(cache, p, channel, excludeVideoIds)
                     ELSE UNION {
                             createProgrammingBlock(
                                 cache, [p EXCEPT !.label = CustomLabel(name, p.id)],
                                 channel, excludeVideoIds)
                             : name \in getPlaylistName(p.id)}
                     : p \in selected}

(***************************************************************************)
(* Store-backed path (part_002:1017-1221, README.md:428-505)               *)
(***************************************************************************)
\* README.md:428-445 over a playlists table
PlaylistRows(table, channelId) ==
    IF channelId \in DOMAIN table
    THEN [i \in DOMAIN table[channelId] |->
             [id |-> table[channelId][i].id,
              label |-> table[channelId][i].name, isCustom |-> FALSE]]
    ELSE <<>>

getAllPlaylistsForChannel(channelId) == PlaylistRows(DbPlaylists, channelId)

\* part_002:1028-1033: the playlists of the included channels of a table
allDbPlaylistsOf(table) ==
    Flat([i \in DOMAIN ChannelsToInclude |-> PlaylistRows(table, ChannelsToInclude[i])])

\* README.md:465-505: unflagged rows of the playlist outside the exclusions,
\* in some order, cut to the limit
getVideosByPlaylistId(playlistId, limitRows, excludeVideoIds) ==
    LET rows == {v \in DbPlaylistVideos[playlistId] :
                    /\ videos[v].is_flagged = FALSE
                    /\ v \notin excludeVideoIds}
    IN  {[i \in 1..(IF limitRows = NoLimit THEN Len(o) ELSE Min(limitRows, Len(o)))
             |-> DbItem(o[i])] : o \in Orders(rows)}

RECURSIVE StoreFetchAll(_)
\* part_002:1046-1063: the lists of every playlist of the random pool
StoreFetchAll(playlists) ==
    IF playlists = <<>> THEN {<<>>}
    ELSE LET p == Head(playlists)
             lists == IF p.isCustom
                      THEN fetchPlaylistItems(p.id, DB_RANDOM_LIMIT)
                      ELSE getVideosByPlaylistId(p.id, DB_RANDOM_LIMIT, {})
         IN  UNION {{<<l>> \o rest : rest \in StoreFetchAll(Tail(playlists))} :
                       l \in lists}

\* part_002:1053, 1063 and README.md:498: the query of one playlist's videos is
\* rejected; nothing catches it before Promise.all, which rejects with it
SourceQueryFailed == Thrown("source query failed")

\* part_002:1026-1097: results of the store-backed random block
StoreRandomBlock(customPlaylistIds, excludeVideoIds) ==
    LET allDbPlaylists == allDbPlaylistsOf(DbPlaylists)
        allPlaylists == allDbPlaylists \o CustomOf(customPlaylistIds)
    IN  IF allPlaylists = <<>>
        THEN {Thrown("No playlists available for random channel")}
        ELSE {SourceQueryFailed} \cup UNION {
                UNION {
                    UNION {
                        {Block("", "random-mix", items) :
                            items \in insertBumpersIntoBlockFromDB(
                                          AsDbItems(blockVideos), bumpers, "positional")}
                        : bumpers \in getRandomBumpers(4)}
                    : blockVideos \in MixedBlockVideos(lists, excludeVideoIds)}
                : lists \in StoreFetchAll(allPlaylists)}

\* part_002:1156-1185: a custom playlist read from the platform, uncached
StoreCustomItems(playlistId, blockSize, excludeVideoIds) ==
    UNION {
        LET filtered == NotExcluded(fetched, excludeVideoIds)
            available == IF filtered = <<>> THEN fetched ELSE filtered
        IN  {AsDbItems(IF sh = <<>> THEN <<>>
                       ELSE FillBlock(Take(sh, blockSize), sh, blockSize)) :
                sh \in shuffle(available)}
        : fetched \in fetchPlaylistItems(playlistId, NoLimit)}

\* part_002:1100-1143: the playlists the store-backed path may select; {} when
\* it throws
StoreSelect(channel, customPlaylistIds, excludePlaylistIds, preferCustom) ==
    LET customPlaylists == CustomOf(customPlaylistIds)
        allPlaylists == getAllPlaylistsForChannel(channel) \o customPlaylists
        Avail(p) == p.id \notin excludePlaylistIds
        availablePlaylists == SelectSeq(allPlaylists, Avail)
        availableList == IF availablePlaylists # <<>> THEN availablePlaylists
                         ELSE allPlaylists
    IN  IF allPlaylists = <<>> THEN {}
        ELSE PickPreferred(availableList, customPlaylists # <<>>, preferCustom)

\* part_002:1099-1216: results of the store-backed single-source block
StoreChannelBlock(channel, customPlaylistIds, excludePlaylistIds, excludeVideoIds, preferCustom) ==
    LET selected == StoreSelect(channel, customPlaylistIds, excludePlaylistIds,
                                preferCustom)
        blockSize == BlockSizeOf(channel)
    IN  IF selected = {}
        THEN {Thrown("No playlists available for channel")}
        ELSE UNION {
                UNION {
                    UNION {
                        {Block(labelled.label, p.id.name, withBumpers) :
                            withBumpers \in insertBumpersIntoBlockFromDB(
                                labelled.items, bumpers, IntervalOf(channel))}
                        : bumpers \in getRandomBumpers(10)}
                    : labelled \in
                        IF p.isCustom
                        THEN {[label |-> CustomLabel(name, p.id), items |-> items] :
                                 name \in getPlaylistName(p.id),
                                 items \in StoreCustomItems(p.id, blockSize,
                                                            excludeVideoIds)}
                        ELSE {[label |-> p.label, items |-> items] :
                                 items \in getVideosByPlaylistId(p.id, blockSize,
                                                                 excludeVideoIds)}}
                : p \in selected}

\* part_002:1017-1221: what the try block may end with; any query of the store
\* may fail. On 'special' it is the API-backed builder that runs inside the try.
\* Every (result, cache afterwards, calls of getChannelBlock made).
TryStore(cache, channel, customPlaylistIds, excludePlaylistIds, excludeVideoIds, preferCustom) ==
    IF channel = "special"
    THEN {[result |-> r.result, cache |-> r.cache, api |-> 1] :
             r \in getChannelBlock(cache, channel, customPlaylistIds,
                                   excludePlaylistIds, excludeVideoIds, preferCustom)}
    ELSE {[result |-> r, cache |-> cache, api |-> 0] :
             r \in {Thrown("store query failed")} \cup
                   (IF channel = "random"
                    THEN StoreRandomBlock(customPlaylistIds, excludeVideoIds)
                    ELSE StoreChannelBlock(channel, customPlaylistIds,
                                           excludePlaylistIds, excludeVideoIds,
                                           preferCustom))}

NoBlock == [kind |-> "none"]

BlockIdle ==
    /\ playlistCache = <<>>
    /\ bumpersCache = <<>>
    /\ isDataReady = FALSE
    /\ pc = "idle"
    /\ req = NoBlock
    /\ dbOutcome = "none"
    /\ dbError = "none"
    /\ apiCalls = 0
    /\ dbAttempts = 0
    /\ apiResult = NoBlock
    /\ response = NoBlock

NoProbe == [op |-> "none"]

ProbeIdle ==
    /\ lastAccess = NoProbe
    /\ probe = NoProbe

\* no handler is in flight
IdleCall == [pc |-> "idle"]

AsyncIdle == calls = [c \in Callers |-> IdleCall]

\* README.md:183-188: the bumpers table as seeded, every row with its duration
BumperIdle ==
    /\ bumperTable = [b \in Range(DbBumpers) |-> SeededDuration[b]]
    /\ adminReply = [status |-> 0]

\* part_002:166-168 and app.listen not yet called
StartupIdle ==
    /\ isNoaChannelReady = FALSE
    /\ noaLoad = [pc |-> "idle", completed |-> FALSE]
    /\ readyReply = [kind |-> "none"]
    /\ prefetch = [pc |-> "off", i |-> 0]
    /\ fetches = <<>>

\* The store holds one video, region-limited or not; nothing was reported yet.
InitTracker ==
    /\ USE_DATABASE \in BOOLEAN
    /\ now = 0
    /\ \E limited \in BOOLEAN :
          videos = [v \in TrackedVideoIds |-> VideoRow(limited)]
    /\ lastCall = NoCall
    /\ chain = [v \in TrackedVideoIds |-> 0]
    /\ BlockIdle
    /\ ProbeIdle
    /\ StartupIdle
    /\ BumperIdle
    /\ AsyncIdle

NextTracker ==
    \/ PostUnavailable
    \/ PostFlag
    \/ Tick

SpecTracker == InitTracker /\ [][NextTracker]_vars

(***************************************************************************)
(* Block requests: GET /api/channel/:id and POST /api/channel/:id/next     *)
(* (part_002:1277-1318) served by getChannelBlockWithFallback (1016-1226)  *)
(***************************************************************************)
RequestChannels == {"rock", "shows", "random", "special", "bogus"}
RequestCustom == {<<>>, <<PL_CUSTOM, PL_SHORT>>}
RequestExcludePlaylists == {{}, {PL_ROCK, DbPid("1")}}
RequestExcludeVideos == {{}, {"v1"}}

Args(channel, customPlaylistIds, excludePlaylistIds, excludeVideoIds, preferCustom) ==
    [channel |-> channel, customPlaylistIds |-> customPlaylistIds,
     excludePlaylistIds |-> excludePlaylistIds, excludeVideoIds |-> excludeVideoIds,
     preferCustom |-> preferCustom]

\* The requests served: the playlist exclusions and the preference vary on the
\* channels whose builder selects one playlist among several sources.
Requests ==
    {Args(channel, custom, exclPl, exclV, prefer) :
        channel \in RequestChannels, custom \in RequestCustom,
        exclPl \in RequestExcludePlaylists, exclV \in RequestExcludeVideos,
        prefer \in BOOLEAN}
    \ {a \in [channel : RequestChannels \ {"rock"}, customPlaylistIds : RequestCustom,
              excludePlaylistIds : RequestExcludePlaylists,
              excludeVideoIds : RequestExcludeVideos, preferCustom : BOOLEAN] :
          a.excludePlaylistIds # {} \/ a.preferCustom}

FlaggedIds == {v \in DOMAIN videos : videos[v].is_flagged}

\* part_002:412-449: the bumpers of at most MAX_BUMPER_DURATION seconds, or
\* none when the fetches fail
fetchBumpers ==
    {KeptBumpers(UpstreamBumpers), <<>>}

\* part_002:1520-1591, started by app.listen in API mode only (2288-2295)
preFetchAllPlaylists ==
    /\ ~USE_DATABASE
    /\ ~isDataReady
    /\ pc = "idle"
    /\ \E fetched \in FetchAll(playlistCache,
                               Ids(CHANNELS.rock \o CHANNELS.shows), NoLimit),
          bumpers \in fetchBumpers :
          /\ playlistCache' = fetched.cache
          /\ bumpersCache' = bumpers
    /\ isDataReady' = TRUE
    /\ UNCHANGED <<USE_DATABASE, now, videos, lastCall, chain, pc, req, dbOutcome, dbError,
                   apiCalls, dbAttempts, apiResult, response>>
    /\ UNCHANGED probeVars
    /\ UNCHANGED startupVars
    /\ UNCHANGED bumperVars
    /\ UNCHANGED asyncVars

\* part_002:1277-1286 and 1297-1311: the handler reads its arguments
StartRequest ==
    /\ pc = "idle"
    /\ \E args \in Requests :
          req' = [kind |-> "request", args |-> args, flaggedAtStart |-> FlaggedIds]
    /\ pc' = IF USE_DATABASE THEN "store" ELSE "api"
    /\ dbOutcome' = "none"
    /\ dbError' = "none"
    /\ apiCalls' = 0
    /\ dbAttempts' = 0
    /\ apiResult' = NoBlock
    /\ response' = NoBlock
    /\ UNCHANGED <<USE_DATABASE, now, videos, lastCall, chain, playlistCache,
                   bumpersCache, isDataReady>>
    /\ UNCHANGED probeVars
    /\ UNCHANGED startupVars
    /\ UNCHANGED bumperVars
    /\ UNCHANGED asyncVars

\* part_002:1017-1221: the try block; an error is caught and logged
StorePath ==
    /\ pc = "store"
    /\ \E o \in TryStore(playlistCache, req.args.channel, req.args.customPlaylistIds,
                         req.args.excludePlaylistIds, req.args.excludeVideoIds,
                         req.args.preferCustom) :
          /\ playlistCache' = o.cache
          /\ apiCalls' = apiCalls + o.api
          /\ apiResult' = IF o.api = 0 THEN apiResult
                          ELSE [kind |-> "call", before |-> playlistCache,
                                result |-> o.result]
          /\ dbOutcome' = IF o.result.kind = "error" THEN "error" ELSE "ok"
          /\ dbError' = IF o.result.kind = "error" THEN o.result.message ELSE "none"
          /\ pc' = IF o.result.kind = "error" THEN "api"
                   ELSE IF o.result.kind = "hang" THEN "hung" ELSE "done"
          /\ response' = IF o.result.kind = "error" THEN response ELSE o.result
    /\ dbAttempts' = dbAttempts + 1
    /\ UNCHANGED <<USE_DATABASE, now, videos, lastCall, chain, bumpersCache,
                   isDataReady, req>>
    /\ UNCHANGED probeVars
    /\ UNCHANGED startupVars
    /\ UNCHANGED bumperVars
    /\ UNCHANGED asyncVars

\* the fallback, were it to pass the defaults instead of the request's exclusions
FallbackCallDropsExclusions(cache, a) ==
    getChannelBlock(cache, a.channel, a.customPlaylistIds, {}, {}, FALSE)

\* part_002:1225: the call of the API-backed builder after the if
FallbackCall(cache, a) ==
    getChannelBlock(cache, a.channel, a.customPlaylistIds, a.excludePlaylistIds,
                    a.excludeVideoIds, a.preferCustom)

\* part_002:1224-1225: what the builder returns or throws is the outcome
ApiPath ==
    /\ pc = "api"
    /\ \E o \in FallbackCall(playlistCache, req.args) :
          /\ playlistCache' = o.cache
          /\ apiResult' = [kind |-> "call", before |-> playlistCache,
                           result |-> o.result]
          /\ response' = o.result
          /\ pc' = IF o.result.kind = "hang" THEN "hung" ELSE "done"
    /\ apiCalls' = apiCalls + 1
    /\ UNCHANGED <<USE_DATABASE, now, videos, lastCall, chain, bumpersCache,
                   isDataReady, req, dbOutcome, dbError, dbAttempts>>
    /\ UNCHANGED probeVars
    /\ UNCHANGED startupVars
    /\ UNCHANGED bumperVars
    /\ UNCHANGED asyncVars

\* part_002:1289-1293 and 1313-1316: the block, or 404 with the error's message
Reply ==
    /\ pc = "done"
    /\ pc' = "idle"
    /\ req' = NoBlock
    /\ dbOutcome' = "none"
    /\ dbError' = "none"
    /\ apiCalls' = 0
    /\ dbAttempts' = 0
    /\ apiResult' = NoBlock
    /\ response' = NoBlock
    /\ UNCHANGED <<USE_DATABASE, now, videos, lastCall, chain, playlistCache,
                   bumpersCache, isDataReady>>
    /\ UNCHANGED probeVars
    /\ UNCHANGED startupVars
    /\ UNCHANGED bumperVars
    /\ UNCHANGED asyncVars

\* README.md:788-796 flagVideo, reached from POST /api/videos/:videoId/flag
flagVideo ==
    /\ USE_DATABASE
    /\ pc # "hung"
    /\ \E videoId \in TrackedVideoIds :
          videos' = [videos EXCEPT ![videoId] = FlaggedRow(@)]
    /\ UNCHANGED <<USE_DATABASE, now, lastCall, chain>>
    /\ UNCHANGED blockVars
    /\ UNCHANGED probeVars
    /\ UNCHANGED startupVars
    /\ UNCHANGED bumperVars
    /\ UNCHANGED asyncVars

\* A day passes between two requests.
DayPasses ==
    /\ pc = "idle"
    /\ now < MaxBlockTime
    /\ now' = now + CACHE_DURATION
    /\ UNCHANGED <<USE_DATABASE, videos, lastCall, chain>>
    /\ UNCHANGED blockVars
    /\ UNCHANGED probeVars
    /\ UNCHANGED startupVars
    /\ UNCHANGED bumperVars
    /\ UNCHANGED asyncVars

\* The store holds the catalogue's videos, none suppressed; the caches are empty.
InitBlock ==
    /\ USE_DATABASE \in BOOLEAN
    /\ now = 0
    /\ videos = [v \in StoredVideoIds |-> VideoRow(FALSE)]
    /\ lastCall = NoCall
    /\ chain = [v \in StoredVideoIds |-> 0]
    /\ BlockIdle
    /\ ProbeIdle
    /\ StartupIdle
    /\ BumperIdle
    /\ AsyncIdle

NextBlock ==
    \/ preFetchAllPlaylists
    \/ StartRequest
    \/ StorePath
    \/ ApiPath
    \/ Reply
    \/ flagVideo
    \/ DayPasses

SpecBlock == InitBlock /\ [][NextBlock]_vars

(***************************************************************************)
(* Start-up: the bulk pre-fetch, the on-demand channel and GET /api/ready  *)
(* (part_002:1390-1485, 1520-1591, 2267-2296)                              *)
(***************************************************************************)
\* What the platform does during the pre-fetch: the fetch of the first
\* playlist may outlast its timeout, the one of the second may fail.
SlowPlaylists == {StartupPlaylists[1]}
FailingPlaylists == {StartupPlaylists[2]}

\* the fetches that were started and have not come back
InFlight == {p \in DOMAIN fetches : fetches[p] \in {"pending", "timed out"}}

\* the batch at offset i of part_002:1574-1577
BatchAt(i) ==
    {StartupPlaylists[k] : k \in (i + 1)..Min(i + CONCURRENCY_LIMIT,
                                             Len(StartupPlaylists))}

BatchSettled == \A p \in DOMAIN fetches : fetches[p] # "pending"

\* part_002:2288-2295 and 1520-1523: app.listen starts the pre-fetch in API mode
StartPrefetch ==
    /\ ~USE_DATABASE
    /\ prefetch.pc = "off"
    /\ isDataReady' = FALSE
    /\ prefetch' = [pc |-> "batch", i |-> 0]
    /\ UNCHANGED <<USE_DATABASE, now, videos, lastCall, chain, playlistCache,
                   bumpersCache, pc, req, dbOutcome, dbError, apiCalls, dbAttempts, apiResult,
                   response, isNoaChannelReady, noaLoad, readyReply, fetches>>
    /\ UNCHANGED probeVars
    /\ UNCHANGED bumperVars
    /\ UNCHANGED asyncVars

\* part_002:1574-1577 with 451-482: once Promise.all of the batch before has
\* settled, getPlaylistVideos is called for every playlist of the next batch;
\* each call without a valid cache entry starts a fetch and its timer
StartBatch ==
    /\ prefetch.pc = "batch"
    /\ prefetch.i < Len(StartupPlaylists)
    /\ BatchSettled
    /\ fetches' = [p \in BatchAt(prefetch.i) |->
                      IF CacheValid(playlistCache, p) THEN "cached" ELSE "pending"]
                  @@ fetches
    /\ prefetch' = [prefetch EXCEPT !.i = @ + CONCURRENCY_LIMIT]
    /\ UNCHANGED <<USE_DATABASE, now, videos, lastCall, chain, isNoaChannelReady,
                   noaLoad, readyReply>>
    /\ UNCHANGED blockVars
    /\ UNCHANGED probeVars
    /\ UNCHANGED bumperVars
    /\ UNCHANGED asyncVars

\* part_002:476-483: fetchPlaylistItems wins the race and its list is cached
FetchAnswers(p) ==
    /\ p \in DOMAIN fetches
    /\ fetches[p] = "pending"
    /\ \E o \in FetchOutcomes(p, NoLimit) :
          /\ o.failed => p \in FailingPlaylists
          /\ playlistCache' = CachePut(playlistCache, p, o.videos)
    /\ fetches' = [fetches EXCEPT ![p] = "answered"]
    /\ UNCHANGED <<USE_DATABASE, now, videos, lastCall, chain, bumpersCache,
                   isDataReady, pc, req, dbOutcome, dbError, apiCalls, dbAttempts, apiResult,
                   response, isNoaChannelReady, noaLoad, readyReply, prefetch>>
    /\ UNCHANGED probeVars
    /\ UNCHANGED bumperVars
    /\ UNCHANGED asyncVars

\* part_002:470-472 and 484-489: the timer wins the race; the empty list is
\* cached and returned, and nothing stops the fetch
FetchTimesOut(p) ==
    /\ p \in DOMAIN fetches
    /\ p \in SlowPlaylists
    /\ fetches[p] = "pending"
    /\ playlistCache' = CachePut(playlistCache, p, TimedOut.videos)
    /\ fetches' = [fetches EXCEPT ![p] = "timed out"]
    /\ UNCHANGED <<USE_DATABASE, now, videos, lastCall, chain, bumpersCache,
                   isDataReady, pc, req, dbOutcome, dbError, apiCalls, dbAttempts, apiResult,
                   response, isNoaChannelReady, noaLoad, readyReply, prefetch>>
    /\ UNCHANGED probeVars
    /\ UNCHANGED bumperVars
    /\ UNCHANGED asyncVars

\* part_002:269-340 after a lost race: the fetch comes back and its list is dropped
FetchEndsLate(p) ==
    /\ p \in DOMAIN fetches
    /\ fetches[p] = "timed out"
    /\ fetches' = [fetches EXCEPT ![p] = "dropped"]
    /\ UNCHANGED <<USE_DATABASE, now, videos, lastCall, chain, isNoaChannelReady,
                   noaLoad, readyReply, prefetch>>
    /\ UNCHANGED blockVars
    /\ UNCHANGED probeVars
    /\ UNCHANGED bumperVars
    /\ UNCHANGED asyncVars

\* part_002:1581-1583: after the last batch fetchBumpers is awaited
StartBumpers ==
    /\ prefetch.pc = "batch"
    /\ prefetch.i >= Len(StartupPlaylists)
    /\ BatchSettled
    /\ prefetch' = [prefetch EXCEPT !.pc = "bumpers"]
    /\ UNCHANGED <<USE_DATABASE, now, videos, lastCall, chain, isNoaChannelReady,
                   noaLoad, readyReply, fetches>>
    /\ UNCHANGED blockVars
    /\ UNCHANGED probeVars
    /\ UNCHANGED bumperVars
    /\ UNCHANGED asyncVars

\* part_002:1582-1590 with 412-449: the platform answers the bumper requests
\* (which have no timer), bumpersCache is set and the data is marked ready
BumpersAnswer ==
    /\ prefetch.pc = "bumpers"
    /\ bumpersCache' \in fetchBumpers
    /\ isDataReady' = TRUE
    /\ prefetch' = [prefetch EXCEPT !.pc = "done"]
    /\ UNCHANGED <<USE_DATABASE, now, videos, lastCall, chain, playlistCache, pc, req,
                   dbOutcome, dbError, apiCalls, dbAttempts, apiResult, response,
                   isNoaChannelReady, noaLoad, readyReply, fetches>>
    /\ UNCHANGED probeVars
    /\ UNCHANGED bumperVars
    /\ UNCHANGED asyncVars

\* part_002:1442-1457: POST /api/channel/noa/load when the channel is not loaded
StartLoadNoa ==
    /\ noaLoad.pc = "idle"
    /\ ~isNoaChannelReady
    /\ noaLoad' = [noaLoad EXCEPT !.pc = "fetching"]
    /\ UNCHANGED <<USE_DATABASE, now, videos, lastCall, chain, isNoaChannelReady,
                   readyReply, prefetch, fetches>>
    /\ UNCHANGED blockVars
    /\ UNCHANGED probeVars
    /\ UNCHANGED bumperVars
    /\ UNCHANGED asyncVars

\* part_002:1455-1480: every playlist of the channel came back; what was
\* fetched is cached and the channel is marked loaded
FinishLoadNoa ==
    /\ noaLoad.pc = "fetching"
    /\ \E vids \in fetchPlaylistItems(PL_NOA, NoLimit) :
          playlistCache' = CachePut(playlistCache, PL_NOA, vids)
    /\ isNoaChannelReady' = TRUE
    /\ noaLoad' = [pc |-> "idle", completed |-> TRUE]
    /\ UNCHANGED <<USE_DATABASE, now, videos, lastCall, chain, bumpersCache,
                   isDataReady, pc, req, dbOutcome, dbError, apiCalls, dbAttempts, apiResult,
                   response, readyReply, prefetch, fetches>>
    /\ UNCHANGED probeVars
    /\ UNCHANGED bumperVars
    /\ UNCHANGED asyncVars

\* part_002:1390-1439: the answer of GET /api/ready; in store mode it depends
\* on the health check only
ReadyAnswers ==
    IF USE_DATABASE
    THEN {[kind |-> "reply", mode |-> "database", ready |-> TRUE,
           noaChannelReady |-> "true"],
          [kind |-> "reply", mode |-> "database", ready |-> FALSE,
           noaChannelReady |-> "undefined"]}
    ELSE {[kind |-> "reply", mode |-> "youtube_api",
           ready |-> isDataReady /\ playlistCache # <<>> /\ bumpersCache # <<>>,
           noaChannelReady |-> IF isNoaChannelReady THEN "true" ELSE "false"]}

GetReady ==
    /\ \E answer \in ReadyAnswers :
          readyReply' = [answer |-> answer, loadCompleted |-> noaLoad.completed,
                         kind |-> "reply"]
    /\ UNCHANGED <<USE_DATABASE, now, videos, lastCall, chain, isNoaChannelReady,
                   noaLoad, prefetch, fetches>>
    /\ UNCHANGED blockVars
    /\ UNCHANGED probeVars
    /\ UNCHANGED bumperVars
    /\ UNCHANGED asyncVars

NextStartup ==
    \/ StartPrefetch
    \/ StartBatch
    \/ \E p \in DOMAIN fetches : FetchAnswers(p)
    \/ \E p \in DOMAIN fetches : FetchTimesOut(p)
    \/ \E p \in DOMAIN fetches : FetchEndsLate(p)
    \/ StartBumpers
    \/ BumpersAnswer
    \/ StartLoadNoa
    \/ FinishLoadNoa
    \/ GetReady

\* The server takes its own steps and a timer that was set fires; nothing
\* makes the platform answer a request that has no timer.
StartupFairness ==
    /\ WF_vars(StartPrefetch)
    /\ WF_vars(StartBatch)
    /\ WF_vars(StartBumpers)
    /\ \A p \in {StartupPlaylists[i] : i \in DOMAIN StartupPlaylists} :
          WF_vars(FetchAnswers(p) \/ FetchTimesOut(p))

SpecStartup == InitBlock /\ [][NextStartup]_vars /\ StartupFairness

(***************************************************************************)
(* Block requests for the 'live' channel, which has two sources            *)
(***************************************************************************)
LiveRequests ==
    {Args("live", custom, {}, exclV, FALSE) :
        custom \in RequestCustom,
        exclV \in RequestExcludeVideos \cup {StoredVideoIds}}

\* part_002:1277-1286 and 1297-1311 with :id = live
StartLiveRequest ==
    /\ pc = "idle"
    /\ \E args \in LiveRequests :
          req' = [kind |-> "request", args |-> args, flaggedAtStart |-> FlaggedIds]
    /\ pc' = IF USE_DATABASE THEN "store" ELSE "api"
    /\ dbOutcome' = "none"
    /\ dbError' = "none"
    /\ apiCalls' = 0
    /\ dbAttempts' = 0
    /\ apiResult' = NoBlock
    /\ response' = NoBlock
    /\ UNCHANGED <<USE_DATABASE, now, videos, lastCall, chain, playlistCache,
                   bumpersCache, isDataReady>>
    /\ UNCHANGED probeVars
    /\ UNCHANGED startupVars
    /\ UNCHANGED bumperVars
    /\ UNCHANGED asyncVars

NextLive ==
    \/ StartLiveRequest
    \/ StorePath
    \/ ApiPath
    \/ Reply

SpecLive == InitBlock /\ [][NextLive]_vars

(***************************************************************************)
(* The bumper pools: the bumpers table behind POST and DELETE              *)
(* /api/admin/bumper (part_002:1939-1985, README.md:716-765) and the cache *)
(* filled by fetchBumpers (part_002:412-449)                               *)
(***************************************************************************)
\* youtube_video_id of a request body; "" when the field is missing
BodyVideoIds == {"", "b1", "b2", "b3"}
\* duration_seconds of a request body; 0 also stands for a missing field,
\* which duration_seconds || 0 stores as 0 as well
BodyDurations == {0, 30, 90, 91}

\* README.md:716-747: (table afterwards, result)
addBumper(table, youtube_video_id, duration_seconds) ==
    IF youtube_video_id = ""
    THEN [table |-> table, success |-> FALSE, error |-> "youtube_video_id is required"]
    ELSE IF youtube_video_id \in DOMAIN table
    THEN [table |-> table, success |-> FALSE, error |-> "Video is already a bumper"]
    ELSE [table |-> (youtube_video_id :> duration_seconds) @@ table,
          success |-> TRUE, error |-> ""]

\* README.md:754-775: (table afterwards, result)
removeBumper(table, videoId) ==
    IF videoId \notin DOMAIN table
    THEN [table |-> table, success |-> FALSE, error |-> "Video is not a bumper"]
    ELSE [table |-> [b \in DOMAIN table \ {videoId} |-> table[b]],
          success |-> TRUE, error |-> ""]

\* part_002:1939-1966 POST /api/admin/bumper
PostBumper ==
    /\ \E id \in BodyVideoIds, d \in BodyDurations :
          IF ~USE_DATABASE
          THEN /\ adminReply' = [status |-> 503, op |-> "add", id |-> id]
               /\ UNCHANGED bumperTable
          ELSE IF id = ""
          THEN /\ adminReply' = [status |-> 400, op |-> "add", id |-> id]
               /\ UNCHANGED bumperTable
          ELSE LET r == addBumper(bumperTable, id, d)
               IN  /\ bumperTable' = r.table
                   /\ adminReply' = [status |-> IF r.success THEN 200 ELSE 400,
                                     op |-> "add", id |-> id]
    /\ UNCHANGED <<USE_DATABASE, now>>
    /\ UNCHANGED trackerVars
    /\ UNCHANGED blockVars
    /\ UNCHANGED probeVars
    /\ UNCHANGED startupVars
    /\ UNCHANGED asyncVars

\* part_002:1969-1988 DELETE /api/admin/bumper/:videoId
DeleteBumper ==
    /\ \E id \in BodyVideoIds \ {""} :
          IF ~USE_DATABASE
          THEN /\ adminReply' = [status |-> 503, op |-> "remove", id |-> id]
               /\ UNCHANGED bumperTable
          ELSE LET r == removeBumper(bumperTable, id)
               IN  /\ bumperTable' = r.table
                   /\ adminReply' = [status |-> IF r.success THEN 200 ELSE 400,
                                     op |-> "remove", id |-> id]
    /\ UNCHANGED <<USE_DATABASE, now>>
    /\ UNCHANGED trackerVars
    /\ UNCHANGED blockVars
    /\ UNCHANGED probeVars
    /\ UNCHANGED startupVars
    /\ UNCHANGED asyncVars

NextBumpers ==
    \/ PostBumper
    \/ DeleteBumper
    \/ preFetchAllPlaylists

SpecBumpers == InitBlock /\ [][NextBumpers]_vars

(***************************************************************************)
(* Availability tracker: claims C2 - C8, checked under SpecTracker         *)
(***************************************************************************)
\* the last call was a failure report for stored video v that reached the store
PersistedReport(v) ==
    /\ USE_DATABASE
    /\ lastCall.op = "unavailable"
    /\ lastCall.videoId = v
    /\ ~lastCall.dbFailed

\* the last report wrote the suppression: it set the flag or a new reason
AutoFlaggedBy(v) ==
    /\ videos[v].is_flagged
    /\ \/ ~lastCall.before.is_flagged
       \/ videos[v].flag_reason # lastCall.before.flag_reason

\* the previous report is more than the reset window before the last call
GapBefore(v) ==
    /\ lastCall.before.last_unavailable_at # NoTime
    /\ lastCall.at - lastCall.before.last_unavailable_at > ResetWindow

\* C2: after a failure report for a known item the counter is 1 when there was
\* no prior report or the prior report is more than 30 days old, and the
\* previous counter plus 1 otherwise; the last-report time is the report time.
C2_TrackerTransition ==
    \A v \in DOMAIN videos :
        PersistedReport(v) =>
            /\ videos[v].unavailable_count =
                  IF lastCall.before.last_unavailable_at = NoTime \/ GapBefore(v)
                  THEN 1
                  ELSE lastCall.before.unavailable_count + 1
            /\ videos[v].last_unavailable_at = lastCall.at

\* C2 witness: a report more than 30 days after the previous one reset a
\* counter that had reached 2 or more
C2_Witness ==
    \E v \in DOMAIN videos :
        /\ PersistedReport(v)
        /\ GapBefore(v)
        /\ lastCall.before.unavailable_count >= 2
        /\ videos[v].unavailable_count = 1

\* C3 (as claimed): a report that arrives when the counter has already reached
\* the threshold neither suppresses the item again nor replaces its reason.
C3_SuppressedExactlyOnce ==
    \A v \in DOMAIN videos :
        (PersistedReport(v) /\ lastCall.before.unavailable_count >= FLAG_THRESHOLD) =>
            /\ ~AutoFlaggedBy(v)
            /\ videos[v].flag_reason = lastCall.before.flag_reason

\* C4 (as claimed): a report that brings the counter to 5 or more flags the item.
C4_FlaggedAtFive ==
    \A v \in DOMAIN videos :
        (PersistedReport(v) /\ videos[v].unavailable_count >= DOC_FLAG_THRESHOLD) =>
            videos[v].is_flagged

\* C5: a report auto-flags an item only when the last threshold-many reports
\* form a chain, each within 30 days of the one before; a report after a gap
\* of more than 30 days restarts the counter at 1 and flags nothing.
C5_FlaggedOnlyByChain ==
    \A v \in DOMAIN videos :
        PersistedReport(v) =>
            /\ AutoFlaggedBy(v) => chain[v] >= FLAG_THRESHOLD
            /\ GapBefore(v) => (videos[v].unavailable_count = 1 /\ ~AutoFlaggedBy(v))

\* C5 witness: the report that completed a chain of threshold-many reports
\* flagged the item
C5_Witness ==
    \E v \in DOMAIN videos :
        /\ PersistedReport(v)
        /\ ~lastCall.before.is_flagged
        /\ videos[v].is_flagged
        /\ chain[v] = FLAG_THRESHOLD

\* C6: once an item is flagged, no step of the tracker (a failure report that
\* increments, or one that resets the counter to 1) clears the flag.
C6_SuppressionPermanent ==
    [][\A v \in DOMAIN videos : videos[v].is_flagged => videos'[v].is_flagged]_vars

\* C6 witness: a flagged item took a report after more than 30 days, which
\* reset its counter to 1, and is still flagged
C6_Witness ==
    \E v \in DOMAIN videos :
        /\ PersistedReport(v)
        /\ lastCall.before.is_flagged
        /\ lastCall.before.unavailable_count >= FLAG_THRESHOLD
        /\ videos[v].unavailable_count = 1
        /\ videos[v].is_flagged

\* C7 (as claimed): a failure report for a region-limited item leaves its
\* counter, last-report time and suppression flag as they were.
C7_LimitedUntouched ==
    \A v \in DOMAIN videos :
        (lastCall.op = "unavailable" /\ lastCall.videoId = v /\ videos[v].is_limited) =>
            /\ videos[v].unavailable_count = lastCall.before.unavailable_count
            /\ videos[v].last_unavailable_at = lastCall.before.last_unavailable_at
            /\ videos[v].is_flagged = lastCall.before.is_flagged

\* C8 (as claimed): a failure report whose store update fails is still
\* answered as a success.
C8_ReportNeverFailsRequest ==
    (lastCall.op = "unavailable" /\ lastCall.dbFailed) => lastCall.status = HTTP_OK

(***************************************************************************)
(* Accesses to the playlist cache, one after the other (part_002:451-490)  *)
(***************************************************************************)
AccessPlaylists == {PL_ROCK, PL_LONG, PL_GONE}
\* no limit, a limit met after a placeholder was passed over, and the limit of
\* the 'random' block
AccessLimits == {NoLimit, 2, VIDEOS_PER_PLAYLIST}

\* part_002:453: the entry of the playlist as the access finds it
EntryOf(cache, playlistId) ==
    IF playlistId \in DOMAIN cache
    THEN [present |-> TRUE, videos |-> cache[playlistId].videos,
          timestamp |-> cache[playlistId].timestamp]
    ELSE [present |-> FALSE, videos |-> <<>>, timestamp |-> NoTime]

\* part_002:451-490: one call of getPlaylistVideos runs to its end
AccessPlaylist ==
    /\ \E playlistId \in AccessPlaylists, maxVideos \in AccessLimits :
          \E o \in getPlaylistVideos(playlistCache, playlistId, maxVideos) :
              /\ playlistCache' = o.cache
              /\ lastAccess' = [op |-> "access", playlistId |-> playlistId,
                                maxVideos |-> maxVideos,
                                at |-> now, before |-> EntryOf(playlistCache, playlistId),
                                videos |-> o.videos, fetched |-> o.fetched,
                                failed |-> o.failed]
    /\ UNCHANGED <<USE_DATABASE, now, videos, lastCall, chain, bumpersCache,
                   isDataReady, pc, req, dbOutcome, dbError, apiCalls, dbAttempts, apiResult,
                   response, probe>>
    /\ UNCHANGED startupVars
    /\ UNCHANGED bumperVars
    /\ UNCHANGED asyncVars

NextCache ==
    \/ AccessPlaylist
    \/ DayPasses

SpecCache == InitBlock /\ [][NextCache]_vars

(***************************************************************************)
(* The two bumper interleavers applied to drawn lists and pools            *)
(* (part_002:751-785 and 1231-1275)                                        *)
(***************************************************************************)
Bumper(id, duration) == [id |-> id, duration |-> duration]

\* What the bumper playlists may hold: nothing, one to three short clips, a clip
\* listed twice, and the catalogue's playlists with a clip that is too long.
BumperUploads ==
    {<<>>, <<Bumper("b1", 30)>>, <<Bumper("b1", 30), Bumper("b2", 90)>>,
     <<Bumper("b1", 30), Bumper("b2", 90), Bumper("b4", 45)>>,
     <<Bumper("b1", 30), Bumper("b1", 30)>>, UpstreamBumpers}

\* What the bumpers table may hold (youtube_video_id is UNIQUE, README.md:184)
BumperTables == {<<>>, <<"b1">>, <<"b1", "b2">>, <<"b1", "b2", "b4">>}

\* part_002:1089 and 1208; 923 asks for 4 as well
BumperCounts == {4, 10}

\* Lists of 0 to MaxItems videos: all different, or two videos in turn
ItemIdLists ==
    {[i \in 1..n |-> ToString(((i - 1) % m) + 1)] : n \in 0..MaxItems, m \in {2, MaxItems}}

Intervals == {"positional", "shows"}

Drawn(fn, vids, pool, interval) ==
    [op |-> "drawn", fn |-> fn, videos |-> vids, pool |-> pool, interval |-> interval]

Applied(p, out) ==
    [op |-> "applied", fn |-> p.fn, videos |-> p.videos, pool |-> p.pool,
     interval |-> p.interval, out |-> out]

InitInterleave ==
    /\ now = 0
    /\ videos = [v \in StoredVideoIds |-> VideoRow(FALSE)]
    /\ lastCall = NoCall
    /\ chain = [v \in StoredVideoIds |-> 0]
    /\ playlistCache = <<>>
    /\ isDataReady = FALSE
    /\ pc = "idle"
    /\ req = NoBlock
    /\ dbOutcome = "none"
    /\ dbError = "none"
    /\ apiCalls = 0
    /\ dbAttempts = 0
    /\ apiResult = NoBlock
    /\ response = NoBlock
    /\ lastAccess = NoProbe
    /\ StartupIdle
    /\ BumperIdle
    /\ AsyncIdle
    /\ \E ids \in ItemIdLists, interval \in Intervals :
          \/ /\ USE_DATABASE = FALSE
             /\ \E raw \in BumperUploads :
                   /\ bumpersCache = KeptBumpers(raw)
                   /\ probe = Drawn("insertBumpersIntoBlock",
                                    [i \in DOMAIN ids |-> ApiItem(ids[i])],
                                    KeptBumpers(raw), interval)
          \/ /\ USE_DATABASE = TRUE
             /\ bumpersCache = <<>>
             /\ \E rows \in BumperTables, count \in BumperCounts :
                   \E pool \in RandomBumpersOf(rows, count) :
                       probe = Drawn("insertBumpersIntoBlockFromDB",
                                     [i \in DOMAIN ids |-> DbItem(ids[i])],
                                     pool, interval)

\* part_002:751-785 on the cached pool
ApplyInsertBumpersIntoBlock ==
    /\ probe.op = "drawn"
    /\ probe.fn = "insertBumpersIntoBlock"
    /\ \E out \in insertBumpersIntoBlock(probe.videos, probe.interval) :
          probe' = Applied(probe, out)
    /\ UNCHANGED <<USE_DATABASE, now, videos, lastCall, chain, lastAccess>>
    /\ UNCHANGED startupVars
    /\ UNCHANGED bumperVars
    /\ UNCHANGED asyncVars
    /\ UNCHANGED blockVars

\* part_002:1231-1275 on the pool handed to it
ApplyInsertBumpersIntoBlockFromDB ==
    /\ probe.op = "drawn"
    /\ probe.fn = "insertBumpersIntoBlockFromDB"
    /\ \E out \in insertBumpersIntoBlockFromDB(probe.videos, probe.pool,
                                                probe.interval) :
          probe' = Applied(probe, out)
    /\ UNCHANGED <<USE_DATABASE, now, videos, lastCall, chain, lastAccess>>
    /\ UNCHANGED startupVars
    /\ UNCHANGED bumperVars
    /\ UNCHANGED asyncVars
    /\ UNCHANGED blockVars

NextInterleave ==
    \/ ApplyInsertBumpersIntoBlock
    \/ ApplyInsertBumpersIntoBlockFromDB

SpecInterleave == InitInterleave /\ [][NextInterleave]_vars

(***************************************************************************)
(* The block filler and the multi-source blend applied to drawn lists      *)
(* (part_002:726-736 and 574-655)                                          *)
(***************************************************************************)
\* part_002:727-736: the first blockSize videos, repeated until the block is
\* full; with no video the loop never ends
blockVideosOf(availableVideos, blockSize) ==
    IF availableVideos = <<>> THEN Hang
    ELSE FillBlock(Take(availableVideos, blockSize), availableVideos, blockSize)

CUSTOM_POOL_CAP == 100

RECURSIVE RoundRobin(_, _, _)
\* part_002:605-622: a round takes the next video of every custom playlist
\* that has one left; a new round starts while the pool is below the cap
RoundRobin(customPlaylists, round, weightedCustom) ==
    LET HasMore(i) == round <= Len(customPlaylists[i])
        left == SelectSeq([i \in DOMAIN customPlaylists |-> i], HasMore)
    IN  IF left = <<>> \/ Len(weightedCustom) >= CUSTOM_POOL_CAP
        THEN weightedCustom
        ELSE RoundRobin(customPlaylists, round + 1,
                        weightedCustom \o
                            [k \in DOMAIN left |-> customPlaylists[left[k]][round]])

RECURSIVE ShuffledEach(_)
\* part_002:588-593: every custom playlist shuffled on its own
ShuffledEach(lists) ==
    IF lists = <<>> THEN {<<>>}
    ELSE {<<h>> \o t : h \in shuffle(Head(lists)), t \in ShuffledEach(Tail(lists))}

IdsOf(vs) == {vs[i].id : i \in DOMAIN vs}

\* part_002:627-631: each side loses the videos whose id the other side has
uniqueCustomOf(weightedCustom, officialVideos) ==
    LET Keep(v) == v.id \notin IdsOf(officialVideos) IN SelectSeq(weightedCustom, Keep)

uniqueOfficialOf(weightedCustom, officialVideos) ==
    LET Keep(v) == v.id \notin IdsOf(weightedCustom) IN SelectSeq(officialVideos, Keep)

maxPerSourceLonger(uniqueCustom, uniqueOfficial) ==
    IF Len(uniqueCustom) > Len(uniqueOfficial) THEN Len(uniqueCustom)
    ELSE Len(uniqueOfficial)

\* part_002:634
maxPerSource(uniqueCustom, uniqueOfficial) ==
    Min(Len(uniqueCustom), Len(uniqueOfficial))

RECURSIVE Alternate(_, _)
\* part_002:642-652: custom, official, custom, official, ...
Alternate(custom, official) ==
    IF custom = <<>> /\ official = <<>> THEN <<>>
    ELSE (IF custom # <<>> THEN <<Head(custom)>> ELSE <<>>)
         \o (IF official # <<>> THEN <<Head(official)>> ELSE <<>>)
         \o Alternate(IF custom # <<>> THEN Tail(custom) ELSE <<>>,
                      IF official # <<>> THEN Tail(official) ELSE <<>>)

NoPools == [custom |-> <<>>, official |-> <<>>]

\* part_002:574-655: every (output, pools before the 50/50 cut, return taken)
MixOutcomes(customPlaylistResults, officialVideos) ==
    LET NotEmpty(arr) == arr # <<>>
        filled == SelectSeq(customPlaylistResults, NotEmpty)
    IN  IF customPlaylistResults = <<>>
        THEN {[mixed |-> officialVideos, pools |-> NoPools, path |-> "official only"]}
        ELSE IF officialVideos = <<>>
        THEN {[mixed |-> sh, pools |-> NoPools, path |-> "custom only"] :
                 sh \in shuffle(dedupe(Flat(customPlaylistResults)))}
        ELSE IF filled = <<>>
        THEN {[mixed |-> officialVideos, pools |-> NoPools, path |-> "official only"]}
        ELSE {LET weightedCustom == RoundRobin(customPlaylists, 1, <<>>)
                  uniqueCustom == uniqueCustomOf(weightedCustom, officialVideos)
                  uniqueOfficial == uniqueOfficialOf(weightedCustom, officialVideos)
                  n == maxPerSource(uniqueCustom, uniqueOfficial)
              IN  [mixed |-> Alternate(Take(uniqueCustom, n), Take(uniqueOfficial, n)),
                   pools |-> [custom |-> uniqueCustom, official |-> uniqueOfficial],
                   path |-> "mixed"]
              : customPlaylists \in ShuffledEach(filled)}

mixVideos(customPlaylistResults, officialVideos) ==
    {o.mixed : o \in MixOutcomes(customPlaylistResults, officialVideos)}

ItemsOf(prefix, n) == [i \in 1..n |-> ApiItem(prefix \o ToString(i))]

\* What the custom playlists of a request may hold: no playlist, a playlist
\* whose fetch failed, playlists of MaxCustom and 3 videos, a video listed twice
\* in a playlist, a video of two playlists, a video that is official as well.
CustomResults ==
    {<<>>, << <<>> >>, <<ItemsOf("c", 3)>>,
     <<ItemsOf("c", MaxCustom), ItemsOf("d", 3)>>,
     << <<ApiItem("c1"), ApiItem("c1")>> >>,
     << <<ApiItem("c1"), ApiItem("c2")>>, <<ApiItem("c1")>> >>,
     << <<ApiItem("c1"), ApiItem("o1")>>, <<>> >>}

\* part_002:501-502: the official videos are deduplicated before the blend
OfficialResults == {ItemsOf("o", n) : n \in {0, 1, 3, MaxOfficial}}

RECURSIVE SumLen(_)
SumLen(lists) == IF lists = <<>> THEN 0 ELSE Len(Head(lists)) + SumLen(Tail(lists))

\* The lists handed to the functions; without official videos the custom
\* playlists are short ones.
FillChannels == {"rock", "shows"}

\* Catalogues of n playlists, as CHANNELS holds them and as the playlists
\* table holds them
Catalogue(n) ==
    [rock |-> [i \in 1..n |-> [id |-> DbPid(ToString(i)), name |-> "Rock",
                                label |-> "Rock"]]]

\* Requests for a block of one source: a channel of two official playlists or
\* an unknown one, no custom id, a valid and an invalid one, or an invalid one
\* only; any exclusion among the official ids of the backend and the valid
\* custom id.
SelectChannels == {"live", "bogus"}
SelectCustom == {<<>>, <<PL_CUSTOM, PL_SHORT>>, <<PL_SHORT>>}
SelectExclusions(backend) ==
    SUBSET ((IF backend = "api" THEN {PL_LIVE_A, PL_LIVE_B}
             ELSE {DbPid("3"), DbPid("4")}) \cup {PL_CUSTOM})

\* Custom playlists as the round-robin receives them: one to three lists of
\* one video, of a third of the cap and one more, or of half the cap
RoundRobinLists ==
    {[i \in 1..k |-> ItemsOf(<<"c", "d", "e">>[i], n)] :
        k \in 1..3, n \in {1, CUSTOM_POOL_CAP \div 3 + 1, CUSTOM_POOL_CAP \div 2}}

InitCompose ==
    /\ USE_DATABASE = FALSE
    /\ now = 0
    /\ videos = [v \in StoredVideoIds |-> VideoRow(FALSE)]
    /\ lastCall = NoCall
    /\ chain = [v \in StoredVideoIds |-> 0]
    /\ BlockIdle
    /\ lastAccess = NoProbe
    /\ StartupIdle
    /\ BumperIdle
    /\ AsyncIdle
    /\ \/ \E ids \in ItemIdLists, channel \in FillChannels :
             probe = [op |-> "drawn", fn |-> "createProgrammingBlock",
                      availableVideos |-> [i \in DOMAIN ids |-> ApiItem(ids[i])],
                      channel |-> channel]
       \/ \E backend \in {"api", "store"} :
             \E n \in 0..(IF backend = "api" THEN MaxShuffled ELSE MaxSources) :
                 probe = [op |-> "drawn", fn |-> "random sources",
                          backend |-> backend, catalogue |-> Catalogue(n)]
       \/ \E backend \in {"api", "store"}, channel \in SelectChannels,
                custom \in SelectCustom, preferCustom \in BOOLEAN :
             \E excluded \in SelectExclusions(backend) :
                 probe = [op |-> "drawn", fn |-> "single source", backend |-> backend,
                          channel |-> channel, customPlaylistIds |-> custom,
                          excludePlaylistIds |-> excluded,
                          preferCustom |-> preferCustom]
       \/ \E customPlaylists \in RoundRobinLists :
             probe = [op |-> "drawn", fn |-> "round robin",
                      customPlaylists |-> customPlaylists]
       \/ \E custom \in CustomResults, official \in OfficialResults :
             /\ official = <<>> => SumLen(custom) <= 3
             /\ probe = [op |-> "drawn", fn |-> "mixVideos",
                         customPlaylistResults |-> custom, officialVideos |-> official]

\* part_002:726-736 on a shuffled list
ApplyFill ==
    /\ probe.op = "drawn"
    /\ probe.fn = "createProgrammingBlock"
    /\ probe' = [op |-> "applied", fn |-> probe.fn,
                 availableVideos |-> probe.availableVideos,
                 blockSize |-> BlockSizeOf(probe.channel),
                 blockVideos |-> blockVideosOf(probe.availableVideos,
                                               BlockSizeOf(probe.channel))]
    /\ UNCHANGED <<USE_DATABASE, now, videos, lastCall, chain, lastAccess>>
    /\ UNCHANGED startupVars
    /\ UNCHANGED bumperVars
    /\ UNCHANGED asyncVars
    /\ UNCHANGED blockVars

\* part_002:574-655
ApplyMixVideos ==
    /\ probe.op = "drawn"
    /\ probe.fn = "mixVideos"
    /\ \E o \in MixOutcomes(probe.customPlaylistResults, probe.officialVideos) :
          probe' = [op |-> "applied", fn |-> probe.fn,
                    customPlaylistResults |-> probe.customPlaylistResults,
                    officialVideos |-> probe.officialVideos,
                    mixed |-> o.mixed, pools |-> o.pools, path |-> o.path]
    /\ UNCHANGED <<USE_DATABASE, now, videos, lastCall, chain, lastAccess>>
    /\ UNCHANGED startupVars
    /\ UNCHANGED bumperVars
    /\ UNCHANGED asyncVars
    /\ UNCHANGED blockVars

\* part_002:788-846 and 1100-1143: the selection of the source of a block, on
\* the API-backed and on the store-backed path; thrown when there is no
\* playlist at all
ApplySelect ==
    /\ probe.op = "drawn"
    /\ probe.fn = "single source"
    /\ LET selection ==
              IF probe.backend = "api"
              THEN selectRandomPlaylist(probe.channel, probe.customPlaylistIds,
                                        probe.excludePlaylistIds, probe.preferCustom)
              ELSE StoreSelect(probe.channel, probe.customPlaylistIds,
                               probe.excludePlaylistIds, probe.preferCustom)
       IN  IF selection = {}
           THEN probe' = [probe EXCEPT !.op = "applied"] @@ [thrown |-> TRUE, selected |-> <<>>]
           ELSE \E selectedPlaylist \in selection :
                   probe' = [probe EXCEPT !.op = "applied"]
                                @@ [thrown |-> FALSE, selected |-> <<selectedPlaylist>>]
    /\ UNCHANGED <<USE_DATABASE, now, videos, lastCall, chain, lastAccess>>
    /\ UNCHANGED startupVars
    /\ UNCHANGED bumperVars
    /\ UNCHANGED asyncVars
    /\ UNCHANGED blockVars

\* part_002:603-624: step 2 of mixVideos on shuffled custom playlists
ApplyRoundRobin ==
    /\ probe.op = "drawn"
    /\ probe.fn = "round robin"
    /\ probe' = [op |-> "applied", fn |-> probe.fn,
                 customPlaylists |-> probe.customPlaylists,
                 weightedCustom |-> RoundRobin(probe.customPlaylists, 1, <<>>)]
    /\ UNCHANGED <<USE_DATABASE, now, videos, lastCall, chain, lastAccess>>
    /\ UNCHANGED startupVars
    /\ UNCHANGED bumperVars
    /\ UNCHANGED asyncVars
    /\ UNCHANGED blockVars

\* part_002:940-954 and 1028-1060: the official playlists the random block
\* fetches, on the API-backed and on the store-backed path
ApplySelectSources ==
    /\ probe.op = "drawn"
    /\ probe.fn = "random sources"
    /\ \E consulted \in
             IF probe.backend = "api"
             THEN selectedPlaylistsOf(allPlaylistsOf(probe.catalogue))
             ELSE {allDbPlaylistsOf(probe.catalogue)} :
          probe' = [op |-> "applied", fn |-> probe.fn, backend |-> probe.backend,
                    catalogue |-> probe.catalogue, consulted |-> Ids(consulted)]
    /\ UNCHANGED <<USE_DATABASE, now, videos, lastCall, chain, lastAccess>>
    /\ UNCHANGED startupVars
    /\ UNCHANGED bumperVars
    /\ UNCHANGED asyncVars
    /\ UNCHANGED blockVars

NextCompose ==
    \/ ApplyFill
    \/ ApplyMixVideos
    \/ ApplySelectSources
    \/ ApplySelect
    \/ ApplyRoundRobin

SpecCompose == InitCompose /\ [][NextCompose]_vars

(***************************************************************************)
(* Block filler and blend: claims C16, C18, C19, checked under SpecCompose *)
(***************************************************************************)
Filled == probe.op = "applied" /\ probe.fn = "createProgrammingBlock"

\* C16: a single-source block built from fewer available videos than the
\* block size holds exactly block-size regular items: the shuffled list
\* repeated cyclically from its start.
C16_CyclicFill ==
    (/\ Filled
     /\ probe.availableVideos # <<>>
     /\ Len(probe.availableVideos) < probe.blockSize) =>
        /\ probe.blockVideos # Hang
        /\ Len(probe.blockVideos) = probe.blockSize
        /\ \A i \in 1..probe.blockSize :
              /\ probe.blockVideos[i] =
                    probe.availableVideos[((i - 1) % Len(probe.availableVideos)) + 1]
              /\ probe.blockVideos[i].isBumper # "true"

\* two different videos fill a block of 12
C16_Witness ==
    /\ Filled
    /\ Len(probe.availableVideos) = 2
    /\ probe.availableVideos[1] # probe.availableVideos[2]
    /\ probe.blockSize = BLOCK_SIZE
    /\ Len(probe.blockVideos) = BLOCK_SIZE

Mixed == probe.op = "applied" /\ probe.fn = "mixVideos"

\* C18: mixVideos over non-empty custom lists and a non-empty official list
\* returns 2 x min(|custom pool|, |official pool|) entries, the pools being the
\* ones it cuts to equal length, alternating custom, official from the first
\* entry on; with no id on both sides the custom pool is every custom video.
C18_FiftyFifty ==
    (/\ Mixed
     /\ probe.officialVideos # <<>>
     /\ \E i \in DOMAIN probe.customPlaylistResults :
           probe.customPlaylistResults[i] # <<>>) =>
        LET n == Min(Len(probe.pools.custom), Len(probe.pools.official))
        IN  /\ Len(probe.mixed) = 2 * n
            /\ \A k \in 1..n :
                  /\ probe.mixed[2 * k - 1] = probe.pools.custom[k]
                  /\ probe.mixed[2 * k] = probe.pools.official[k]
                  /\ probe.mixed[2 * k - 1].id \in IdsOf(Flat(probe.customPlaylistResults))
                  /\ probe.mixed[2 * k].id \in IdsOf(probe.officialVideos)
            /\ (IdsOf(Flat(probe.customPlaylistResults))
                   \cap IdsOf(probe.officialVideos) = {}) =>
                  Len(probe.mixed) =
                     2 * Min(SumLen(probe.customPlaylistResults),
                             Len(probe.officialVideos))

\* custom lists of 5 and 3 videos and 20 other official videos give 16 entries
C18_Witness ==
    /\ Mixed
    /\ Len(probe.customPlaylistResults) = 2
    /\ Len(probe.customPlaylistResults[1]) = 5
    /\ Len(probe.customPlaylistResults[2]) = 3
    /\ Len(probe.officialVideos) = 20
    /\ Len(probe.pools.custom) = 8
    /\ Len(probe.mixed) = 16

\* C22: a block for the aggregate 'random' channel consults at most
\* PLAYLISTS_TO_SAMPLE (8) official sources, on the API-backed and on the
\* store-backed path, however many playlists the catalogue holds.
C22_SampleOfEight ==
    (probe.op = "applied" /\ probe.fn = "random sources") =>
        Len(probe.consulted) <= PLAYLISTS_TO_SAMPLE

\* C19: the output of the blend holds no item id twice, whatever the custom
\* lists (an id twice in one list, an id of two lists) and the official list.
C19_NoIdTwice ==
    Mixed =>
        \A i, j \in DOMAIN probe.mixed :
            probe.mixed[i].id = probe.mixed[j].id => i = j

(***************************************************************************)
(* Bumper interleavers: claims C13, C14, checked under SpecInterleave      *)
(***************************************************************************)
Interleaved == probe.op = "applied" /\ probe.fn \in {"insertBumpersIntoBlock",
                                                      "insertBumpersIntoBlockFromDB"}

\* where the j-th regular item stands in a positional output
PositionOf(j) ==
    j + (IF j > 2 THEN 1 ELSE 0) + (IF j > 6 THEN 1 ELSE 0)
      + (IF j > 10 THEN 1 ELSE 0) + (IF j > 12 THEN 1 ELSE 0)

\* C13: a positional interleave of N >= 12 regular items with a non-empty
\* bumper pool has bumpers of the pool at exactly the 1-indexed positions 3, 8,
\* 13 and 16 and the regular items, in their input order, everywhere else, for
\* insertBumpersIntoBlock and for insertBumpersIntoBlockFromDB.
C13_PositionalBumpers ==
    (/\ Interleaved
     /\ probe.interval = "positional"
     /\ Len(probe.videos) >= 12
     /\ probe.pool # <<>>) =>
        /\ Len(probe.out) = Len(probe.videos) + 4
        /\ \A i \in {3, 8, 13, 16} : probe.out[i] \in Range(probe.pool)
        /\ \A j \in DOMAIN probe.videos : probe.out[PositionOf(j)] = probe.videos[j]

\* 13 items interleaved with a pool of at least two bumpers, by either function
C13_Witness ==
    /\ Interleaved
    /\ probe.interval = "positional"
    /\ Len(probe.videos) > 12
    /\ Len(probe.pool) >= 2
    /\ probe.fn = "insertBumpersIntoBlockFromDB"

\* the bumpers of an output, in the order of their insertion
InsertedBumpers(out) ==
    LET IsBumper(e) == e.isBumper = "true" IN SelectSeq(out, IsBumper)

\* C14: when the bumper pool has at least 2 entries, each bumper inserted into
\* a block has another identifier than the bumper inserted just before it, on
\* the cache-backed and on the store-backed interleaver.
C14_NoRepeatedBumper ==
    (Interleaved /\ Len(probe.pool) >= 2) =>
        LET b == InsertedBumpers(probe.out)
        IN  \A i \in 1..(Len(b) - 1) : b[i].id # b[i + 1].id

(***************************************************************************)
(* Playlist cache: claims C11, C12, checked under SpecCache                *)
(***************************************************************************)
Accessed == lastAccess.op = "access"

WithinTtl == lastAccess.before.present
             /\ lastAccess.at - lastAccess.before.timestamp < CACHE_DURATION

\* C11: an access to a source while now - storedAt < TTL makes no upstream
\* fetch, returns the stored list and leaves the entry as it is; an access
\* with no entry or at or after its expiry makes exactly one upstream fetch
\* and stores what it returns under the time of the access.
C11_CacheTtl ==
    Accessed =>
        IF WithinTtl
        THEN /\ lastAccess.fetched = 0
             /\ lastAccess.videos = lastAccess.before.videos
             /\ EntryOf(playlistCache, lastAccess.playlistId) = lastAccess.before
        ELSE /\ lastAccess.fetched = 1
             /\ EntryOf(playlistCache, lastAccess.playlistId) =
                    [present |-> TRUE, videos |-> lastAccess.videos,
                     timestamp |-> lastAccess.at]

\* an entry stored a day earlier is found expired and fetched anew
C11_Witness ==
    /\ Accessed
    /\ lastAccess.before.present
    /\ lastAccess.at - lastAccess.before.timestamp >= CACHE_DURATION
    /\ lastAccess.fetched = 1
    /\ lastAccess.videos # <<>>

\* C12: after a fetch of a source failed (an upstream error on any page, or
\* the timeout), the cache holds the empty list for that source and the
\* access returned it.
C12_FailedFetchCachesEmpty ==
    (Accessed /\ lastAccess.failed) =>
        /\ lastAccess.videos = <<>>
        /\ playlistCache[lastAccess.playlistId].videos = <<>>

(***************************************************************************)
(* Block assembler: claims C1, C9, C10, checked under SpecBlock            *)
(***************************************************************************)
ReturnedBlock == pc = "done" /\ response.kind = "block"

\* C1: no returned block, on any channel and either backend, with or without
\* custom sources and also after a store-to-API fallback, contains an item whose
\* suppression flag was set when the request arrived.
C1_NoFlaggedItemReturned ==
    ReturnedBlock =>
        \A i \in DOMAIN response.items :
            response.items[i].id \notin req.flaggedAtStart

\* the API-backed builder, for the arguments of the request, on the cache as it
\* was when the fallback called it
ApiYields(result) ==
    /\ apiResult.kind = "call"
    /\ \E o \in getChannelBlock(apiResult.before, req.args.channel,
                                req.args.customPlaylistIds,
                                req.args.excludePlaylistIds,
                                req.args.excludeVideoIds, req.args.preferCustom) :
          o.result.kind = result.kind /\ o.result = result

\* C9: with the store enabled, a request whose store-backed path raised an
\* error ends with exactly what the API-backed getChannelBlock yields for the
\* same arguments; a request whose store-backed path succeeded did not invoke
\* the API-backed path.
C9_FallbackYieldsApiResult ==
    (USE_DATABASE /\ pc \in {"done", "hung"}) =>
        /\ dbOutcome = "error" => ApiYields(response)
        /\ dbOutcome = "ok" => apiCalls = 0

\* a store error on a request with exclusions, answered by the API-backed path
C9_Witness ==
    /\ USE_DATABASE
    /\ ReturnedBlock
    /\ dbOutcome = "error"
    /\ apiCalls = 1
    /\ req.args.excludeVideoIds # {}
    /\ req.args.excludePlaylistIds # {}

\* C10: within one request getChannelBlock is executed at most once, on every
\* channel including 'special', and the store-backed path is entered at most
\* once.
C10_FallbackOneShot ==
    /\ apiCalls <= 1
    /\ dbAttempts <= 1

\* C24: on the store-backed path of a 'random' request, which reads every
\* source of the pool, the failure of one source's query leaves the block
\* composed on that path: the path does not end in an error.
C24_SourceFailureKeepsPath ==
    (req.kind = "request" /\ req.args.channel = "random"
        /\ dbError = SourceQueryFailed.message) => dbOutcome = "ok"

\* C27: every entry of a returned block carries a boolean isBumper tag, on the
\* store-backed and on the API-backed path alike (entries read beyond the end
\* of the source list, which carry nothing at all, are left aside).
C27_EveryEntryTagged ==
    ReturnedBlock =>
        \A i \in DOMAIN response.items :
            response.items[i] # Undefined =>
                response.items[i].isBumper \in {"true", "false"}

\* the request with the custom ids that pass the identifier pattern only
ValidOnly(a) ==
    [a EXCEPT !.customPlaylistIds = SelectSeq(@, isValidPlaylistId)]

InvalidCustomOf(a) ==
    {a.customPlaylistIds[i] : i \in {i \in DOMAIN a.customPlaylistIds :
                                        ~isValidPlaylistId(a.customPlaylistIds[i])}}

\* C28: custom ids that fail the identifier pattern are dropped silently: on
\* either path the request may end exactly as the request carrying only its
\* valid ids may, no invalid id is ever fetched (every fetch through the cache
\* leaves an entry) and no block is built from an invalid id.
C28_InvalidIdsDropped ==
    /\ pc = "api" =>
          FallbackCall(playlistCache, req.args)
              = FallbackCall(playlistCache, ValidOnly(req.args))
    /\ pc = "store" =>
          TryStore(playlistCache, req.args.channel, req.args.customPlaylistIds,
                   req.args.excludePlaylistIds, req.args.excludeVideoIds,
                   req.args.preferCustom)
              = TryStore(playlistCache, req.args.channel,
                         ValidOnly(req.args).customPlaylistIds,
                         req.args.excludePlaylistIds, req.args.excludeVideoIds,
                         req.args.preferCustom)
    /\ \A p \in DOMAIN playlistCache : isValidPlaylistId(p)
    /\ ReturnedBlock =>
          \A p \in InvalidCustomOf(req.args) : response.playlistId # p.name

\* a request carrying a valid and an invalid custom id was answered with a
\* block of the valid custom playlist
C28_Witness ==
    /\ ReturnedBlock
    /\ InvalidCustomOf(req.args) # {}
    /\ response.playlistId = PL_CUSTOM.name
    /\ PL_CUSTOM \in DOMAIN playlistCache

\* the duration the platform reports for a bumper video, 0 when it reports none
UpstreamDuration(id) ==
    LET known == {i \in DOMAIN UpstreamBumpers : UpstreamBumpers[i].id = id}
    IN  IF known = {} THEN 0 ELSE UpstreamBumpers[CHOOSE i \in known : TRUE].duration

WithinMaximum(duration) == duration # 0 /\ duration <= MAX_BUMPER_DURATION

\* C29: every bumper of a pool has a known duration of at most
\* MAX_BUMPER_DURATION seconds: in the cache after a refresh, and in the
\* store's table after any sequence of addBumper and removeBumper calls.
C29_PoolWithinMaximum ==
    /\ \A i \in DOMAIN bumpersCache :
          WithinMaximum(UpstreamDuration(bumpersCache[i].id))
    /\ \A b \in DOMAIN bumperTable : WithinMaximum(bumperTable[b])

Genuine(item) == ~IsPlaceholder(item)

\* the ids of the first m items of a source that are not placeholders
FirstGenuine(raw, m) == Take(Ids(SelectSeq(raw, Genuine)), m)

PlaceholderIds(raw) == {raw[i].id : i \in {i \in DOMAIN raw : IsPlaceholder(raw[i])}}

\* an access that called fetchPlaylistItems with a limit on a source that has
\* at least that many items that are not placeholders
FetchedWithLimit ==
    /\ Accessed
    /\ lastAccess.fetched = 1
    /\ lastAccess.maxVideos # NoLimit
    /\ lastAccess.playlistId \in DOMAIN Upstream
    /\ Len(SelectSeq(Upstream[lastAccess.playlistId], Genuine)) >= lastAccess.maxVideos

NoPlaceholderFetched ==
    (Accessed /\ lastAccess.playlistId \in DOMAIN Upstream) =>
        \A i \in DOMAIN lastAccess.videos :
            lastAccess.videos[i].id \notin PlaceholderIds(Upstream[lastAccess.playlistId])

IsRegular(e) == e.isBumper # "true" /\ e # Undefined

RegularItems(items) == SelectSeq(items, IsRegular)

\* the bumper pool the path that built the block read
PoolOfResponse == IF dbOutcome = "ok" THEN DbBumpers ELSE bumpersCache

\* C15: on the 'shows' channel with a non-empty bumper pool, a block built from
\* a source of at least one item is exactly [item, bumper, item, item, bumper],
\* all five entries present, on both backends.
C15_ShowsShape ==
    (/\ ReturnedBlock
     /\ req.args.channel = "shows"
     /\ PoolOfResponse # <<>>
     /\ RegularItems(response.items) # <<>>) =>
        /\ Len(response.items) = 5
        /\ \A i \in {1, 3, 4} : IsRegular(response.items[i])
        /\ \A i \in {2, 5} : response.items[i].isBumper = "true"

\* C17: on both backends a single-source block that has a regular item at all
\* has exactly block-size regular items (12, or 3 on 'shows'), whatever the
\* request excludes.
C17_FullBlock ==
    (/\ ReturnedBlock
     /\ req.args.channel \in {"rock", "shows"}
     /\ RegularItems(response.items) # <<>>) =>
        Len(RegularItems(response.items)) = BlockSizeOf(req.args.channel)

\* C20: a block request for a channel identifier the server does not know
\* ends in an error (answered 404), with or without valid custom source ids.
C20_UnknownChannelNotFound ==
    (pc = "done" /\ req.args.channel \notin (DOMAIN CHANNELS \cup {"special"})) =>
        response.kind = "error"

(***************************************************************************)
(* 'live' channel: claim C21, checked under SpecLive                       *)
(***************************************************************************)
\* the single sources a block of the request may come from
SingleSources ==
    {p.id.name : p \in Range(CHANNELS.live)} \cup
    {p.id.name : p \in Range(DbPlaylists.live)} \cup
    {id.name : id \in Range(req.args.customPlaylistIds)}

\* C21: a block returned for channel 'live' is drawn from all sources of the
\* channel together (and the valid custom ones): it is never the block of one
\* selected source.
C21_LiveUsesAllSources ==
    (ReturnedBlock /\ req.args.channel = "live") =>
        response.playlistId \notin SingleSources

(***************************************************************************)
(* Start-up: claims C23, C25, C26, checked under SpecStartup               *)
(***************************************************************************)
\* C23: the readiness flag of the on-demand channel is false until a call of
\* POST /api/channel/noa/load has completed and true ever after, and GET
\* /api/ready reports that flag, whatever the general ready flag is.
C23_NoaFlagFollowsUnlock ==
    /\ isNoaChannelReady = noaLoad.completed
    /\ readyReply.kind = "reply" =>
          readyReply.answer.noaChannelReady =
              (IF readyReply.loadCompleted THEN "true" ELSE "false")

\* C25: during the pre-fetch at most CONCURRENCY_LIMIT (8) fetches of
\* playlists are in flight at any moment, the fetches whose timer has fired
\* and that have not come back included.
C25_AtMostEightInFlight == Cardinality(InFlight) <= CONCURRENCY_LIMIT

\* C26: in API mode the pre-fetch started by app.listen ends and isDataReady
\* becomes true, whichever fetches fail, time out or are never answered.
C26_PrefetchEnds == ~USE_DATABASE => <>(prefetch.pc = "done" /\ isDataReady)

(***************************************************************************)
(* Selection of the source of a block: claims C31, C32, checked under      *)
(* SpecCompose                                                             *)
(***************************************************************************)
SelectApplied == probe.op = "applied" /\ probe.fn = "single source"

\* the official playlists of the channel on the backend, and the custom ids
\* that pass the identifier pattern
EligibleSources ==
    Range(IF probe.backend = "api" THEN OfficialOf(probe.channel)
          ELSE getAllPlaylistsForChannel(probe.channel))
        \cup Range(CustomOf(probe.customPlaylistIds))

OpenSources == {p \in EligibleSources : p.id \notin probe.excludePlaylistIds}

\* C31: the selection returns a source outside excludePlaylistIds whenever an
\* eligible source (official, or custom with a valid id) is not excluded; when
\* all of them are excluded it returns an eligible source all the same; it
\* fails only when there is no eligible source.
C31_SelectionRespectsExclusions ==
    SelectApplied =>
        /\ EligibleSources # {} =>
              /\ ~probe.thrown
              /\ probe.selected[1] \in EligibleSources
        /\ OpenSources # {} => probe.selected[1] \in OpenSources

\* every eligible source is excluded and one of them was selected
C31_Witness ==
    /\ SelectApplied
    /\ Cardinality(EligibleSources) = 3
    /\ OpenSources = {}
    /\ ~probe.thrown
    /\ probe.selected[1] \in EligibleSources

\* the pool the request prefers, among the candidates: the sources that are not
\* excluded, or all the eligible ones after the exclusion reset
Candidates == IF OpenSources # {} THEN OpenSources ELSE EligibleSources

PreferredPool == {p \in Candidates : p.isCustom = probe.preferCustom}

\* C32: with at least one valid custom id, the selected source comes from the
\* preferred pool (custom if preferCustom, official otherwise) whenever that
\* pool has a candidate, also after an exclusion reset, on both backends.
C32_PreferredPoolFirst ==
    (SelectApplied /\ CustomOf(probe.customPlaylistIds) # <<>>) =>
        (PreferredPool # {} => probe.selected[1] \in PreferredPool)

(***************************************************************************)
(* The blend, continued: claims C33, C34, checked under SpecCompose        *)
(***************************************************************************)
\* the ids the custom lists and the official list have in common
SharedIds == IdsOf(Flat(probe.customPlaylistResults)) \cap IdsOf(probe.officialVideos)

\* C33: an id of both the custom lists and the official list stays in the
\* custom pool of the blend and leaves the official pool only.
C33_SharedIdStaysCustom ==
    (Mixed /\ probe.path = "mixed") =>
        \A id \in SharedIds :
            /\ id \in IdsOf(probe.pools.custom)
            /\ id \notin IdsOf(probe.pools.official)

\* C34: the custom pool the round-robin of mixVideos builds never holds more
\* than CUSTOM_POOL_CAP items, whatever the number and the sizes of the
\* custom playlists.
C34_PoolWithinCap ==
    (probe.op = "applied" /\ probe.fn = "round robin") =>
        Len(probe.weightedCustom) <= CUSTOM_POOL_CAP

(***************************************************************************)
(* Item exclusions of a single-source block: claim C35, checked under      *)
(* SpecLive                                                                *)
(***************************************************************************)
RegularIds(items) == {items[i].id : i \in {i \in DOMAIN items : IsRegular(items[i])}}

\* the ids of the list the builder of the returned block read from its source:
\* the unflagged rows of the store's playlist, the list in the playlist cache,
\* or, for a custom playlist on the store-backed path, what the platform holds
ChosenSourceIds ==
    LET name == response.playlistId
        rows == {p \in DOMAIN DbPlaylistVideos : p.name = name}
        cached == {p \in DOMAIN playlistCache : p.name = name}
        held == {p \in DOMAIN Upstream : p.name = name}
    IN  IF dbOutcome = "ok"
        THEN IF rows # {}
             THEN UNION {{v \in DbPlaylistVideos[p] : ~videos[v].is_flagged} : p \in rows}
             ELSE UNION {IdsOf(SelectSeq(Upstream[p], Genuine)) : p \in held}
        ELSE UNION {IdsOf(playlistCache[p].videos) : p \in cached}

\* C35: a single-source block holds no item whose id is in excludeVideoIds,
\* in its repeated part either, unless every item of the chosen source is
\* excluded; the exclusion is then ignored and the block is built from the
\* source all the same. (Requests during which no video was flagged.)
C35_ExcludedItemsAbsent ==
    (/\ ReturnedBlock
     /\ req.args.channel \in {"rock", "shows", "live"}
     /\ FlaggedIds = req.flaggedAtStart) =>
        LET open == ChosenSourceIds \ req.args.excludeVideoIds
            blockIds == RegularIds(response.items)
        IN  IF open # {}
            THEN blockIds \subseteq open
            ELSE ChosenSourceIds # {} =>
                     blockIds # {} /\ blockIds \subseteq ChosenSourceIds

(***************************************************************************)
(* Playlist cache under block requests: claims C36, C37, C38               *)
(***************************************************************************)
\* C36: composing blocks never changes the contents of a cache entry: as long
\* as an entry is the one that was stored (same time of storage), it holds the
\* same items in the same order. Checked under SpecLive, where no entry expires.
C36_CacheEntriesUntouched ==
    [][\A p \in DOMAIN playlistCache :
          (/\ p \in DOMAIN playlistCache'
           /\ playlistCache'[p].timestamp = playlistCache[p].timestamp) =>
              playlistCache'[p].videos = playlistCache[p].videos]_vars

\* C37: the builder of a single-source block returns for every chosen source,
\* a source whose list is empty included: no request is ever left in the
\* filling loop that cannot end. Checked under SpecBlock.
C37_BlockBuildReturns == pc # "hung"

\* C38: getPlaylistVideos called without a limit returns a list an unlimited
\* fetch of the source returns (the complete list when no page request
\* fails), also when an earlier call within the TTL fetched the source with a
\* limit: never a limit-truncated list. Checked under SpecCache.
C38_UnlimitedCallNotTruncated ==
    (/\ Accessed
     /\ lastAccess.maxVideos = NoLimit
     /\ lastAccess.playlistId \in DOMAIN Upstream) =>
        lastAccess.videos \in fetchPlaylistItems(lastAccess.playlistId, NoLimit)

(***************************************************************************)
(* Calls of getPlaylistVideos that overlap (part_002:451-490): each await  *)
(* is a point where another call may run                                   *)
(***************************************************************************)
\* how many calls began, and how many settled, before this one does
StartedSoFar == Cardinality({d \in Callers : calls[d].pc # "idle"})

SettledSoFar == Cardinality({d \in Callers : calls[d].pc = "done"})

\* part_002:451-466: the call reads the clock and the cache; a valid entry is
\* returned at once, otherwise the fetch is begun and the call awaits the race
CallStarts(c) ==
    /\ calls[c].pc = "idle"
    /\ \E playlistId \in AccessPlaylists, maxVideos \in AccessLimits :
          calls' = [calls EXCEPT ![c] =
              IF CacheValid(playlistCache, playlistId)
              THEN [pc |-> "done", playlistId |-> playlistId, maxVideos |-> maxVideos,
                    at |-> now, started |-> StartedSoFar + 1,
                    settled |-> SettledSoFar + 1, fetched |-> 0,
                    videos |-> playlistCache[playlistId].videos, failed |-> FALSE]
              ELSE [pc |-> "racing", playlistId |-> playlistId, maxVideos |-> maxVideos,
                    at |-> now, started |-> StartedSoFar + 1]]
    /\ UNCHANGED <<USE_DATABASE, now>>
    /\ UNCHANGED trackerVars
    /\ UNCHANGED blockVars
    /\ UNCHANGED probeVars
    /\ UNCHANGED startupVars
    /\ UNCHANGED bumperVars

\* part_002:468-489: the race settles; the list fetched, or the empty list of
\* the catch, is stored under the time read when the call began
RaceSettles(c) ==
    /\ calls[c].pc = "racing"
    /\ \E o \in FetchOutcomes(calls[c].playlistId, calls[c].maxVideos) \cup {TimedOut} :
          /\ playlistCache' = (calls[c].playlistId :>
                                  [videos |-> o.videos, timestamp |-> calls[c].at])
                              @@ playlistCache
          /\ calls' = [calls EXCEPT ![c] =
                 [pc |-> "done", playlistId |-> calls[c].playlistId,
                  maxVideos |-> calls[c].maxVideos, at |-> calls[c].at,
                  started |-> calls[c].started, settled |-> SettledSoFar + 1,
                  fetched |-> 1, videos |-> o.videos, failed |-> o.failed]]
    /\ UNCHANGED <<USE_DATABASE, now, videos, lastCall, chain, bumpersCache,
                   isDataReady, pc, req, dbOutcome, dbError, apiCalls, dbAttempts,
                   apiResult, response>>
    /\ UNCHANGED probeVars
    /\ UNCHANGED startupVars
    /\ UNCHANGED bumperVars

NextOverlap ==
    \/ \E c \in Callers : CallStarts(c)
    \/ \E c \in Callers : RaceSettles(c)
    \/ DayPasses

SpecOverlap == InitBlock /\ [][NextOverlap]_vars

\* call a began first, call b succeeded while a was awaiting, and a then ended
\* with the empty list of the catch
FailedAfterSuccess(a, b) ==
    /\ calls[a].pc = "done" /\ calls[b].pc = "done"
    /\ calls[a].fetched = 1 /\ calls[b].fetched = 1
    /\ calls[a].playlistId = calls[b].playlistId
    /\ calls[a].started < calls[b].started
    /\ calls[b].settled < calls[a].settled
    /\ ~calls[b].failed /\ calls[b].videos # <<>>
    /\ calls[a].failed /\ calls[a].videos = <<>>

\* C39: when two fetches of the same cold source overlap, the entry written by
\* the one that succeeded is not replaced by the empty result of the other one,
\* which began earlier and failed or timed out later: the cache still holds the
\* list of the call that succeeded.
C39_SuccessNotOverwritten ==
    \A a, b \in Callers :
        FailedAfterSuccess(a, b) =>
            playlistCache[calls[a].playlistId].videos = calls[b].videos

(***************************************************************************)
(* Failure reports handled concurrently (part_002:1357-1387 with           *)
(* README.md:547-617): the handler awaits the SELECT and then the UPDATE,  *)
(* and another handler may run at each await                               *)
(***************************************************************************)
ReportsInFlight(videoId) ==
    {d \in Callers : calls[d].pc = "selected" /\ calls[d].videoId = videoId}

\* README.md:592-613: the UPDATE writes the columns computed from the row the
\* SELECT returned into the row as it stands now
WrittenRow(current, read, errorCode, t) ==
    LET marked == MarkedRow(read, errorCode, t)
    IN  [current EXCEPT !.unavailable_count = marked.unavailable_count,
                        !.last_unavailable_at = t,
                        !.is_flagged = IF ShouldFlag(marked.unavailable_count)
                                       THEN TRUE ELSE @,
                        !.flag_reason = IF ShouldFlag(marked.unavailable_count)
                                        THEN marked.flag_reason ELSE @]

\* part_002:1357-1373 with README.md:547-562: up to the answer of the SELECT
\* and the reading of the clock
ReportSelects(c) ==
    /\ calls[c].pc = "idle"
    /\ \E videoId \in RequestVideoIds, errorCode \in ErrorCodes :
          \/ UnavailableNoStore(videoId) /\ UNCHANGED calls
          \/ UnavailableStoreError(videoId) /\ UNCHANGED calls
          \/ UnavailableUnknown(videoId) /\ UNCHANGED calls
          \/ /\ USE_DATABASE
             /\ videoId \in DOMAIN videos
             /\ chain[videoId] + Cardinality(ReportsInFlight(videoId)) < MaxReports
             /\ calls' = [calls EXCEPT ![c] =
                    [pc |-> "selected", videoId |-> videoId, errorCode |-> errorCode,
                     row |-> videos[videoId], at |-> now]]
             /\ UNCHANGED <<videos, chain, lastCall>>
    /\ UNCHANGED <<USE_DATABASE, now>>
    /\ UNCHANGED blockVars
    /\ UNCHANGED probeVars
    /\ UNCHANGED startupVars
    /\ UNCHANGED bumperVars

\* README.md:592-616 with part_002:1377-1386: the UPDATE and the answer
ReportUpdates(c) ==
    /\ calls[c].pc = "selected"
    /\ LET videoId == calls[c].videoId
       IN  \/ /\ lastCall' = Call("unavailable", videoId, HTTP_ERROR, TRUE,
                                  videos[videoId])
              /\ UNCHANGED <<videos, chain>>
           \/ /\ videos' = [videos EXCEPT ![videoId] =
                     WrittenRow(@, calls[c].row, calls[c].errorCode, calls[c].at)]
              /\ chain' = [chain EXCEPT ![videoId] =
                     ChainNext(@, videos[videoId].last_unavailable_at, calls[c].at)]
              /\ lastCall' = Call("unavailable", videoId, HTTP_OK, FALSE, videos[videoId])
    /\ calls' = [calls EXCEPT ![c] = IdleCall]
    /\ UNCHANGED <<USE_DATABASE, now>>
    /\ UNCHANGED blockVars
    /\ UNCHANGED probeVars
    /\ UNCHANGED startupVars
    /\ UNCHANGED bumperVars

NextReports ==
    \/ \E c \in Callers : ReportSelects(c)
    \/ \E c \in Callers : ReportUpdates(c)

SpecReports == InitTracker /\ [][NextReports]_vars

\* C40: when k failure reports for the same item have been processed, possibly
\* concurrently and all within the 30-day window of one another (here: at one
\* reading of the clock), the item's counter has increased by exactly k: once
\* no report is in flight the counter equals the number of reports processed.
C40_NoReportLost ==
    \A v \in TrackedVideoIds :
        ReportsInFlight(v) = {} => videos[v].unavailable_count = chain[v]

====
